---- MODULE Spec2Model ----
(***************************************************************************)
(* GenericCLI: the line editor, history, tokenizer, command registry and   *)
(* dispatcher of generic_cli.cpp, as a state machine.                      *)
(*                                                                         *)
(* A String is a sequence of byte values (ASCII codes).  The transport     *)
(* (Serial) is a queue of bytes in and a log of what a call wrote out.     *)
(***************************************************************************)
EXTENDS Integers, Sequences, FiniteSets, TLC

VARIABLES
    cli,          \* the GenericCLI object: its fields, config included
    serialIn,     \* bytes the transport holds that update() has not read
    serialOut,    \* what the latest call wrote to the transport (reports, calls)
    aborted,      \* "no", or how the process ended: "uncaught", "crash"
    lastCall,     \* the API call that led to this state, with its input
    fed,          \* position in the scripted input (end-to-end scenario)
    parsed,       \* the CLIArgs the latest parseArguments call returned
    g_exitRequested  \* the flag of the standard command set's exit

vars ==
    <<cli, serialIn, serialOut, aborted, lastCall, fed, parsed, g_exitRequested>>

----------------------------------------------------------------------------
\* Bounds of the model.

\* longest line the user keeps in the input buffer between two calls
MaxLen == 2
\* largest history capacity the embedder configures
MaxHist == 2
\* most up/down key presses in one navigation round trip
MaxNav == 2
\* most bytes left unread in the transport while the engine is stopped
MaxPending == 2

----------------------------------------------------------------------------
\* Byte values the code names.

ESC == 27
LF == 10
CR == 13
BS == 8
DEL == 127
SPACE == 32
QUOTE == 34
DASH == 45
EQUALS == 61
LBRACKET == 91
TILDE == 126
DIGIT3 == 51
FirstPrintable == 32
LastPrintable == 126

\* String literals of the source, as byte sequences.
str_help == <<104, 101, 108, 112>>
str_history == <<104, 105, 115, 116, 111, 114, 121>>
str_clear == <<99, 108, 101, 97, 114>>
str_exit == <<101, 120, 105, 116>>
str_true == <<116, 114, 117, 101>>
str_ping == <<112, 105, 110, 103>>
str_force == <<102, 111, 114, 99, 101>>
str_y == <<121>>
str_yes == <<121, 101, 115>>
str_n == <<110>>
str_no == <<110, 111>>

----------------------------------------------------------------------------
\* Arduino String operations.

\* String::toLowerCase on one byte: tolower()
toLowerChar(c) == IF c >= 65 /\ c <= 90 THEN c + 32 ELSE c

\* String::toLowerCase
toLowerCase(s) == [i \in 1..Len(s) |-> toLowerChar(s[i])]

\* String::equals
equals(a, b) == a = b

\* String::equalsIgnoreCase: same length and tolower() of every byte agrees
equalsIgnoreCase(a, b) ==
    /\ Len(a) = Len(b)
    /\ \A i \in 1..Len(a) : toLowerChar(a[i]) = toLowerChar(b[i])

\* String::substring(left, right), 0-based, right exclusive
substring(s, left, right) ==
    LET l == IF left > right THEN right ELSE left
        r0 == IF left > right THEN left ELSE right
        r == IF r0 > Len(s) THEN Len(s) ELSE r0
    IN  IF l >= Len(s) THEN <<>> ELSE SubSeq(s, l + 1, r)

\* String::remove(index, count), 0-based
remove(s, index, count) ==
    IF index >= Len(s) \/ count <= 0 THEN s
    ELSE LET n == IF count > Len(s) - index THEN Len(s) - index ELSE count
         IN  SubSeq(s, 1, index) \o SubSeq(s, index + n + 1, Len(s))

\* String::indexOf(ch, fromIndex), 0-based, -1 when absent
indexOf(s, ch, from) ==
    LET hits == {i \in 0..(Len(s) - 1) : i >= from /\ s[i + 1] = ch}
    IN  IF hits = {} THEN -1 ELSE CHOOSE i \in hits : \A j \in hits : i <= j

----------------------------------------------------------------------------
\* CLIArgs and the tokenizer.

\* std::map<String,String>::operator[] assignment
setFlag(flags, name, value) ==
    [k \in DOMAIN flags \cup {name} |-> IF k = name THEN value ELSE flags[k]]

\* CLIArgs as default-constructed
emptyArgs == [positional |-> <<>>, flags |-> <<>>]

\* parseArguments: the state of the loop before it starts
parseInit ==
    [args |-> emptyArgs, current |-> <<>>, inQuotes |-> FALSE,
     inFlag |-> FALSE, flagName |-> <<>>]

\* parseArguments: the body of the for loop at index i; the result carries
\* the index the loop continues from (the body's i, before the loop's i++)
parseChar(input, i, p) ==
    LET c == input[i + 1]
    IN  IF c = QUOTE /\ ~p.inFlag
        THEN [p |-> [p EXCEPT !.inQuotes = ~p.inQuotes], i |-> i]
        ELSE IF c = SPACE /\ ~p.inQuotes
        THEN IF p.current # <<>>
             THEN IF p.inFlag
                  THEN [p |-> [p EXCEPT
                                 !.args.flags = setFlag(@, p.flagName, p.current),
                                 !.inFlag = FALSE,
                                 !.flagName = <<>>,
                                 !.current = <<>>],
                        i |-> i]
                  ELSE [p |-> [p EXCEPT
                                 !.args.positional = Append(@, p.current),
                                 !.current = <<>>],
                        i |-> i]
             ELSE [p |-> p, i |-> i]
        ELSE IF /\ c = DASH
                /\ ~p.inQuotes
                /\ p.current = <<>>
                /\ i + 1 < Len(input)
                /\ input[i + 2] = DASH
        THEN LET i2 == i + 1
                 eqPos == indexOf(input, EQUALS, i2 + 1)
                 spIdx == indexOf(input, SPACE, i2 + 1)
             IN  \* eqPos != -1 && eqPos < (size_t) indexOf(' '): -1 is SIZE_MAX
                 IF eqPos # -1 /\ (spIdx = -1 \/ eqPos < spIdx)
                 THEN [p |-> [p EXCEPT
                                !.flagName = substring(input, i2 + 1, eqPos),
                                !.inFlag = TRUE],
                       i |-> eqPos]
                 ELSE LET spacePos == IF spIdx = -1 THEN Len(input) ELSE spIdx
                          name == substring(input, i2 + 1, spacePos)
                      IN  [p |-> [p EXCEPT
                                    !.flagName = name,
                                    !.args.flags = setFlag(@, name, str_true)],
                           i |-> spacePos - 1]
        ELSE IF c = EQUALS /\ p.inFlag
        THEN [p |-> p, i |-> i]
        ELSE [p |-> [p EXCEPT !.current = Append(@, c)], i |-> i]

RECURSIVE parseLoop(_, _, _)
\* parseArguments: the for loop from index i
parseLoop(input, i, p) ==
    IF i >= Len(input) THEN p
    ELSE LET r == parseChar(input, i, p)
         IN  parseLoop(input, r.i + 1, r.p)

\* parseArguments without the handling of the remaining content
parseArguments_dropsRemaining(input) == parseLoop(input, 0, parseInit).args

\* GenericCLI::parseArguments
parseArguments(input) ==
    LET p == parseLoop(input, 0, parseInit)
    IN  IF p.current # <<>>
        THEN IF p.inFlag
             THEN [p.args EXCEPT !.flags = setFlag(@, p.flagName, p.current)]
             ELSE [p.args EXCEPT !.positional = Append(@, p.current)]
        ELSE p.args

----------------------------------------------------------------------------
\* The command registry.

\* CLICommand
CLICommand(name, callback, hidden) ==
    [name |-> name, callback |-> callback, hidden |-> hidden]

\* nameMatches comparing exactly whatever the policy: equals() alone
nameMatches_exact(config, cmdName, name) == equals(cmdName, name)

\* the comparison findCommand and unregisterCommand share
nameMatches(config, cmdName, name) ==
    IF config.caseSensitive THEN equals(cmdName, name)
    ELSE equalsIgnoreCase(cmdName, name)

\* findCommand returning the first entry without comparing names
findCommand_firstEntry(c, name) == IF c.commands = <<>> THEN 0 ELSE 1

\* GenericCLI::findCommand: index of the first match, 0 for nullptr
findCommand(c, name) ==
    LET hits == {i \in 1..Len(c.commands) :
                    nameMatches(c.config, c.commands[i].name, name)}
    IN  IF hits = {} THEN 0 ELSE CHOOSE i \in hits : \A j \in hits : i <= j

\* GenericCLI::unregisterCommand: std::remove_if + erase of every match
unregisterCommand(c, name) ==
    [c EXCEPT !.commands =
        SelectSeq(@, LAMBDA cmd : ~nameMatches(c.config, cmd.name, name))]

\* GenericCLI::registerCommand, on the machine m (it writes a warning)
registerCommand(m, name, callback, hidden) ==
    LET found == findCommand(m.cli, name) # 0
        c1 == IF found THEN unregisterCommand(m.cli, name) ELSE m.cli
    IN  [m EXCEPT
           !.cli = [c1 EXCEPT !.commands =
                       Append(@, CLICommand(name, callback, hidden))],
           !.out = IF found
                   THEN Append(@, [ev |-> "Warning", what |-> "overwriting",
                                   name |-> name])
                   ELSE @]

\* GenericCLI::clearCommands
clearCommands(c) == [c EXCEPT !.commands = <<>>]

\* GenericCLI::getCommandNames
getCommandNames(c) ==
    LET shown == SelectSeq(c.commands, LAMBDA cmd : ~cmd.hidden)
    IN  [i \in 1..Len(shown) |-> shown[i].name]

----------------------------------------------------------------------------
\* History.

RECURSIVE trimHistory_popBack(_, _)
\* trimHistory dropping the newest entry: pop_back() for pop_front()
trimHistory_popBack(h, size) ==
    IF Len(h) > size
    THEN trimHistory_popBack(SubSeq(h, 1, Len(h) - 1), size)
    ELSE h

RECURSIVE trimHistory(_, _)
\* while (commandHistory.size() > config.historySize) pop_front()
trimHistory(h, size) ==
    IF Len(h) > size THEN trimHistory(Tail(h), size) ELSE h

\* GenericCLI::setHistorySize
setHistorySize(c, size) ==
    [c EXCEPT !.config.historySize = size,
              !.commandHistory = trimHistory(@, size)]

\* GenericCLI::setConfig
setConfig(c, cfg) ==
    [c EXCEPT !.config = cfg,
              !.commandHistory = trimHistory(@, cfg.historySize)]

\* GenericCLI::setEchoEnabled
setEchoEnabled(c, enabled) == [c EXCEPT !.config.echoEnabled = enabled]

\* addToHistory without the comparison with the newest entry
addToHistory_noDedup(c, command) ==
    IF command = <<>> THEN c
    ELSE [c EXCEPT !.commandHistory =
             trimHistory(Append(@, command), c.config.historySize)]

\* addToHistory comparing with the oldest entry: front() for back()
addToHistory_compareFront(c, command) ==
    IF command = <<>> THEN c
    ELSE IF c.commandHistory # <<>> /\ equals(c.commandHistory[1], command)
    THEN c
    ELSE [c EXCEPT !.commandHistory =
             trimHistory(Append(@, command), c.config.historySize)]

\* GenericCLI::addToHistory
addToHistory(c, command) ==
    IF command = <<>> THEN c
    ELSE IF c.commandHistory # <<>>
            /\ equals(c.commandHistory[Len(c.commandHistory)], command)
    THEN c
    ELSE [c EXCEPT !.commandHistory =
             trimHistory(Append(@, command), c.config.historySize)]

\* enterHistoryMode without the snapshot of the buffer
enterHistoryMode_noSnapshot(c) ==
    IF ~c.inHistoryMode
    THEN [c EXCEPT !.inHistoryMode = TRUE,
                   !.historyIndex = Len(c.commandHistory)]
    ELSE c

\* GenericCLI::enterHistoryMode
enterHistoryMode(c) ==
    IF ~c.inHistoryMode
    THEN [c EXCEPT !.savedInput = c.inputBuffer,
                   !.inHistoryMode = TRUE,
                   !.historyIndex = Len(c.commandHistory)]
    ELSE c

\* GenericCLI::exitHistoryMode
exitHistoryMode(c) ==
    IF c.inHistoryMode
    THEN [c EXCEPT !.inHistoryMode = FALSE, !.historyIndex = -1]
    ELSE c

\* clearHistory leaving the entries in place
clearHistory_keepsEntries(c) ==
    [c EXCEPT !.historyIndex = -1, !.inHistoryMode = FALSE]

\* GenericCLI::clearHistory
clearHistory(c) ==
    [c EXCEPT !.commandHistory = <<>>,
              !.historyIndex = -1,
              !.inHistoryMode = FALSE]

\* GenericCLI::stopCLI
stopCLI(c) == [c EXCEPT !.isRunning = FALSE]

----------------------------------------------------------------------------
\* Key handlers.  m is the machine during a call: the object (m.cli), the
\* bytes still unread (m.in), what the call has written (m.out), a fault in
\* flight (m.fault), and the outcome of an out-of-range read of the history
\* deque, should one happen (m.wild: the string read, or a crash; m.ub,
\* m.crashed).

\* commandHistory[historyIndex]: undefined when the index is out of range
readHistory(m, idx) ==
    IF idx >= 0 /\ idx < Len(m.cli.commandHistory)
    THEN [m EXCEPT !.cli.inputBuffer = m.cli.commandHistory[idx + 1],
                   !.cli.cursorPos = Len(m.cli.commandHistory[idx + 1])]
    ELSE IF m.wild.crash
    THEN [m EXCEPT !.ub = TRUE, !.crashed = TRUE]
    ELSE [m EXCEPT !.ub = TRUE,
                   !.cli.inputBuffer = m.wild.text,
                   !.cli.cursorPos = Len(m.wild.text)]

\* processArrowUp without the test for an empty history
processArrowUp_noEmptyTest(m) ==
    LET c1 == enterHistoryMode(m.cli)
    IN  IF c1.historyIndex > 0
        THEN readHistory([m EXCEPT !.cli = [c1 EXCEPT !.historyIndex = @ - 1]],
                         c1.historyIndex - 1)
        ELSE [m EXCEPT !.cli = c1]

\* GenericCLI::processArrowUp
processArrowUp(m) ==
    IF m.cli.commandHistory = <<>> THEN m
    ELSE LET c1 == enterHistoryMode(m.cli)
         IN  IF c1.historyIndex > 0
             THEN readHistory(
                      [m EXCEPT !.cli = [c1 EXCEPT !.historyIndex = @ - 1]],
                      c1.historyIndex - 1)
             ELSE [m EXCEPT !.cli = c1]

\* GenericCLI::processArrowDown
processArrowDown(m) ==
    IF ~m.cli.inHistoryMode THEN m
    ELSE IF m.cli.historyIndex < Len(m.cli.commandHistory) - 1
    THEN readHistory([m EXCEPT !.cli.historyIndex = @ + 1],
                     m.cli.historyIndex + 1)
    ELSE [m EXCEPT !.cli = exitHistoryMode(
                      [m.cli EXCEPT !.inputBuffer = m.cli.savedInput,
                                    !.cursorPos = Len(m.cli.savedInput)])]

\* GenericCLI::processBackspace
processBackspace(m) ==
    IF m.cli.cursorPos > 0 /\ m.cli.inputBuffer # <<>>
    THEN [m EXCEPT !.cli = exitHistoryMode(
                      [m.cli EXCEPT
                         !.inputBuffer = remove(@, m.cli.cursorPos - 1, 1),
                         !.cursorPos = @ - 1])]
    ELSE m

\* processDelete staying in the history mode
processDelete_staysBrowsing(m) ==
    IF m.cli.cursorPos < Len(m.cli.inputBuffer)
    THEN [m EXCEPT !.cli.inputBuffer = remove(@, m.cli.cursorPos, 1)]
    ELSE m

\* GenericCLI::processDelete
processDelete(m) ==
    IF m.cli.cursorPos < Len(m.cli.inputBuffer)
    THEN [m EXCEPT !.cli = exitHistoryMode(
                      [m.cli EXCEPT
                         !.inputBuffer = remove(@, m.cli.cursorPos, 1)])]
    ELSE m

\* GenericCLI::processHome
processHome(m) ==
    IF m.cli.cursorPos > 0 /\ m.cli.config.echoEnabled
    THEN [m EXCEPT !.cli.cursorPos = 0]
    ELSE m

\* GenericCLI::processEnd
processEnd(m) ==
    IF m.cli.cursorPos < Len(m.cli.inputBuffer) /\ m.cli.config.echoEnabled
    THEN [m EXCEPT !.cli.cursorPos = Len(m.cli.inputBuffer)]
    ELSE m

\* processArrowRight without the test against the buffer's length
processArrowRight_unchecked(m) == [m EXCEPT !.cli.cursorPos = @ + 1]

\* update(): case 'C', right arrow
processArrowRight(m) ==
    IF m.cli.cursorPos < Len(m.cli.inputBuffer)
    THEN [m EXCEPT !.cli.cursorPos = @ + 1]
    ELSE m

\* update(): case 'D', left arrow
processArrowLeft(m) ==
    IF m.cli.cursorPos > 0
    THEN [m EXCEPT !.cli.cursorPos = @ - 1]
    ELSE m

\* the printable branch without cursorPos++
processPrintable_noAdvance(m, c) ==
    LET b == m.cli.inputBuffer
        p == m.cli.cursorPos
        nb == IF p = Len(b) THEN Append(b, c)
              ELSE substring(b, 0, p) \o <<c>> \o substring(b, p, Len(b))
    IN  [m EXCEPT !.cli = exitHistoryMode([m.cli EXCEPT !.inputBuffer = nb])]

\* the printable branch appending at the end wherever the cursor is
processPrintable_appends(m, c) ==
    [m EXCEPT !.cli = exitHistoryMode(
                 [m.cli EXCEPT !.inputBuffer = Append(@, c),
                               !.cursorPos = @ + 1])]

\* update(): the printable branch
processPrintable(m, c) ==
    LET b == m.cli.inputBuffer
        p == m.cli.cursorPos
        nb == IF p = Len(b) THEN Append(b, c)
              ELSE substring(b, 0, p) \o <<c>> \o substring(b, p, Len(b))
    IN  [m EXCEPT !.cli = exitHistoryMode(
                     [m.cli EXCEPT !.inputBuffer = nb, !.cursorPos = p + 1])]

----------------------------------------------------------------------------
\* Handlers and dispatch.

\* callbacks of the embedder: two that return, one that throws
UserCallbacks == {"userA", "userB", "userThrow"}

\* CLIArgs::getPositional(index, "")
getPositional(args, index) ==
    IF index < Len(args.positional) THEN args.positional[index + 1] ELSE <<>>

\* CLIArgs::hasFlag
hasFlag(args, flag) == flag \in DOMAIN args.flags

\* printCommandList listing every entry, the hidden ones too
printCommandList_showsHidden(m) ==
    [m EXCEPT !.out =
        Append(@, [ev |-> "CommandList",
                   names |-> [i \in 1..Len(m.cli.commands) |->
                                 m.cli.commands[i].name]])]

\* GenericCLI::printCommandList: the names it prints (the categories they
\* are grouped by are not modelled)
printCommandList(m) ==
    LET shown == SelectSeq(m.cli.commands, LAMBDA cmd : ~cmd.hidden)
    IN  [m EXCEPT !.out =
            Append(@, [ev |-> "CommandList",
                       names |-> [i \in 1..Len(shown) |-> shown[i].name]])]

\* GenericCLI::handleHelpCommand
handleHelpCommand(m, args) ==
    IF args.positional = <<>>
    THEN printCommandList(m)
    ELSE LET commandName == getPositional(args, 0)
             i == findCommand(m.cli, commandName)
         IN  IF i # 0
             THEN [m EXCEPT !.out = Append(@, [ev |-> "CommandHelp",
                                               name |-> m.cli.commands[i].name])]
             ELSE [m EXCEPT !.out = Append(@, [ev |-> "CommandNotFound",
                                               name |-> commandName])]

\* GenericCLI::handleHistoryCommand
handleHistoryCommand(m, args) ==
    IF hasFlag(args, str_clear)
       \/ equalsIgnoreCase(getPositional(args, 0), str_clear)
    THEN [m EXCEPT !.cli = clearHistory(m.cli),
                   !.out = Append(@, [ev |-> "HistoryCleared"])]
    ELSE IF m.cli.commandHistory = <<>>
    THEN [m EXCEPT !.out = Append(@, [ev |-> "NoHistory"])]
    ELSE [m EXCEPT !.out = Append(@, [ev |-> "HistoryList",
                                      lines |-> m.cli.commandHistory])]

\* GenericCLI::handleClearCommand
handleClearCommand(m, args) ==
    [m EXCEPT !.out = Append(@, [ev |-> "ScreenCleared"])]

\* GenericCLI::handleExitCommand
handleExitCommand(m, args) ==
    [m EXCEPT !.out = Append(@, [ev |-> "Goodbye"]),
              !.cli = stopCLI(m.cli)]

RECURSIVE readResponse(_, _)
\* handleExit: the loop that waits for the reply.  The bytes the transport
\* delivers before the timeout are those of in; the loop ends at a line end,
\* or by the timeout once they are all read
readResponse(in, response) ==
    IF in = <<>>
    THEN [response |-> response, in |-> <<>>, timedOut |-> TRUE]
    ELSE IF Head(in) = LF \/ Head(in) = CR
    THEN [response |-> response, in |-> Tail(in), timedOut |-> FALSE]
    ELSE IF Head(in) >= FirstPrintable /\ Head(in) <= LastPrintable
    THEN readResponse(Tail(in), Append(response, Head(in)))
    ELSE readResponse(Tail(in), response)

\* handleExit: what follows the wait, r being what the loop read
confirmExit(m, r, response) ==
    LET m1 == [m EXCEPT !.in = r.in,
                        !.out = Append(@, [ev |-> "Reply",
                                           response |-> r.response,
                                           timedOut |-> r.timedOut])]
    IN  IF response = str_y \/ response = str_yes
        THEN [m1 EXCEPT !.out = Append(@, [ev |-> "ExitConfirmed"]),
                        !.exitRequested = TRUE]
        ELSE IF response = str_n \/ response = str_no \/ response = <<>>
        THEN [m1 EXCEPT !.out = Append(@, [ev |-> "ExitCancelled"])]
        ELSE [m1 EXCEPT !.out = Append(@, [ev |-> "InvalidResponse"])]

\* CLIStandardCommands::handleExit
handleExit(m, args) ==
    IF hasFlag(args, str_force)
    THEN [m EXCEPT !.out = Append(@, [ev |-> "ForceExit"]),
                   !.exitRequested = TRUE]
    ELSE LET r == readResponse(m.in, <<>>)
         IN  confirmExit([m EXCEPT !.out = Append(@, [ev |-> "ConfirmExit"])],
                         r, toLowerCase(r.response))

\* CLIStandardCommands::isExitRequested
isExitRequested(m) == m.exitRequested

\* CLIStandardCommands::resetExitFlag
resetExitFlag(m) == [m EXCEPT !.exitRequested = FALSE]

\* cmd->callback(args): the call is logged, then the callback's body runs
callback(m, cb, args) ==
    LET m1 == [m EXCEPT !.out = Append(@, [ev |-> "call", callback |-> cb,
                                           args |-> args])]
    IN  CASE cb = "handleHelpCommand" -> handleHelpCommand(m1, args)
          [] cb = "handleHistoryCommand" -> handleHistoryCommand(m1, args)
          [] cb = "handleClearCommand" -> handleClearCommand(m1, args)
          [] cb = "handleExitCommand" -> handleExitCommand(m1, args)
          [] cb = "handleExit" -> handleExit(m1, args)
          [] cb = "userThrow" -> [m1 EXCEPT !.fault = TRUE]
          [] OTHER -> m1

\* the callback invoked without the try/catch
tryCallback_noCatch(m, cb, args) == callback(m, cb, args)

\* executeCommand: the try/catch around the callback
tryCallback(m, cb, args) ==
    LET r == callback(m, cb, args)
    IN  IF r.fault
        THEN [r EXCEPT !.fault = FALSE,
                       !.out = Append(@, [ev |-> "CommandFailure"])]
        ELSE r

\* dispatch stopping the engine when there is no such command
dispatch_stopsOnUnknown(m, commandName, rest, i) ==
    IF i # 0
    THEN tryCallback(m, m.cli.commands[i].callback, rest)
    ELSE [m EXCEPT !.out = Append(@, [ev |-> "UnknownCommand",
                                      name |-> commandName]),
                   !.cli = stopCLI(m.cli)]

\* executeCommand: the call of the command found at index i, or the report
\* that there is none
dispatch(m, commandName, rest, i) ==
    IF i # 0
    THEN tryCallback(m, m.cli.commands[i].callback, rest)
    ELSE [m EXCEPT !.out = Append(@, [ev |-> "UnknownCommand",
                                      name |-> commandName])]

\* lookup handing the arguments over with the command name still in them
lookup_keepsName(m, args, commandName) ==
    dispatch(m, commandName, args, findCommand(m.cli, commandName))

\* executeCommand: the first positional is removed from the arguments and
\* looked up
lookup(m, args, commandName) ==
    dispatch(m, commandName, [args EXCEPT !.positional = Tail(@)],
             findCommand(m.cli, commandName))

\* executeParsed reporting a line without positional tokens as unknown
executeParsed_reportsEmpty(m, args) ==
    IF args.positional = <<>>
    THEN [m EXCEPT !.out = Append(@, [ev |-> "UnknownCommand", name |-> <<>>])]
    ELSE lookup(m, args, IF ~m.cli.config.caseSensitive
                         THEN toLowerCase(args.positional[1])
                         ELSE args.positional[1])

\* executeCommand: from the parsed arguments on
executeParsed(m, args) ==
    IF args.positional = <<>> THEN m
    ELSE lookup(m, args, IF ~m.cli.config.caseSensitive
                         THEN toLowerCase(args.positional[1])
                         ELSE args.positional[1])

\* GenericCLI::executeCommand
executeCommand(m, commandLine) ==
    IF commandLine = <<>> THEN m
    ELSE executeParsed(m, parseArguments(commandLine))

----------------------------------------------------------------------------
\* update()

\* processSubmit leaving history browsing on
processSubmit_staysBrowsing(m) ==
    LET line == m.cli.inputBuffer
        m1 == IF line # <<>> THEN executeCommand(m, line) ELSE m
    IN  IF m1.fault THEN m1
        ELSE IF line # <<>>
        THEN [m1 EXCEPT !.cli = [addToHistory(m1.cli, line) EXCEPT
                                    !.inputBuffer = <<>>, !.cursorPos = 0]]
        ELSE m1

\* the submit branch storing the line before it dispatches it
processSubmit_storesFirst(m) ==
    LET line == m.cli.inputBuffer
        m0 == [m EXCEPT !.cli = addToHistory(m.cli, line)]
        m1 == IF line # <<>> THEN executeCommand(m0, line) ELSE m
    IN  IF m1.fault THEN m1
        ELSE IF line # <<>>
        THEN [m1 EXCEPT !.cli = exitHistoryMode(
                           [m1.cli EXCEPT
                              !.inputBuffer = <<>>, !.cursorPos = 0])]
        ELSE [m1 EXCEPT !.cli = exitHistoryMode(m1.cli)]

\* the submit branch reporting an empty line as an unknown command
processSubmit_reportsEmpty(m) ==
    LET line == m.cli.inputBuffer
        m1 == IF line # <<>> THEN executeCommand(m, line)
              ELSE [m EXCEPT !.out = Append(@, [ev |-> "UnknownCommand",
                                                name |-> <<>>])]
    IN  IF m1.fault THEN m1
        ELSE IF line # <<>>
        THEN [m1 EXCEPT !.cli = exitHistoryMode(
                           [addToHistory(m1.cli, line) EXCEPT
                              !.inputBuffer = <<>>, !.cursorPos = 0])]
        ELSE [m1 EXCEPT !.cli = exitHistoryMode(m1.cli)]

\* update(): the branch of '\n' and '\r'
processSubmit(m) ==
    LET line == m.cli.inputBuffer
        m1 == IF line # <<>> THEN executeCommand(m, line) ELSE m
    IN  IF m1.fault THEN m1
        ELSE IF line # <<>>
        THEN [m1 EXCEPT !.cli = exitHistoryMode(
                           [addToHistory(m1.cli, line) EXCEPT
                              !.inputBuffer = <<>>, !.cursorPos = 0])]
        ELSE [m1 EXCEPT !.cli = exitHistoryMode(m1.cli)]

\* update(): the branch of ESC, entered with ESC already read
processEscape(m) ==
    IF Len(m.in) >= 2
    THEN LET seq1 == m.in[1]
             seq2 == m.in[2]
             m1 == [m EXCEPT !.in = SubSeq(@, 3, Len(@))]
         IN  IF seq1 # LBRACKET THEN m1
             ELSE CASE seq2 = 65 -> processArrowUp(m1)
                    [] seq2 = 66 -> processArrowDown(m1)
                    [] seq2 = 67 -> processArrowRight(m1)
                    [] seq2 = 68 -> processArrowLeft(m1)
                    [] seq2 = 72 -> processHome(m1)
                    [] seq2 = 70 -> processEnd(m1)
                    [] seq2 = DIGIT3 ->
                         IF m1.in # <<>>
                         THEN IF Head(m1.in) = TILDE
                              THEN processDelete([m1 EXCEPT !.in = Tail(@)])
                              ELSE [m1 EXCEPT !.in = Tail(@)]
                         ELSE m1
                    [] OTHER -> m1
    ELSE m

\* update(): one pass of the while loop, entered with byte c already read
processByte(m, c) ==
    IF c = ESC THEN processEscape(m)
    ELSE IF c = LF \/ c = CR THEN processSubmit(m)
    ELSE IF c = BS \/ c = DEL THEN processBackspace(m)
    ELSE IF c >= FirstPrintable /\ c <= LastPrintable
    THEN processPrintable(m, c)
    ELSE m

RECURSIVE updateLoop(_)
\* update(): while (Serial.available())
updateLoop(m) ==
    IF m.in = <<>> \/ m.fault \/ m.crashed THEN m
    ELSE updateLoop(processByte([m EXCEPT !.in = Tail(@)], Head(m.in)))

\* update reading one byte in a call
update_oneByte(m) ==
    IF ~m.cli.isRunning \/ m.in = <<>> THEN m
    ELSE processByte([m EXCEPT !.in = Tail(@)], Head(m.in))

\* GenericCLI::update
update(m) == IF ~m.cli.isRunning THEN m ELSE updateLoop(m)

----------------------------------------------------------------------------
\* Construction.

\* CLIConfig::CLIConfig: historySize(50)
DefaultHistorySize == 50

\* CLIConfig as default-constructed
defaultConfig ==
    [echoEnabled |-> TRUE, caseSensitive |-> FALSE,
     historySize |-> DefaultHistorySize]

\* the machine of one call on object c with unread bytes in
Machine(c, in, wild) ==
    [cli |-> c, in |-> in, out |-> <<>>, fault |-> FALSE,
     wild |-> wild, ub |-> FALSE, crashed |-> FALSE,
     exitRequested |-> g_exitRequested]

\* no out-of-range read is expected: the value is unused
noWild == [crash |-> FALSE, text |-> <<>>]

\* what an out-of-range read of the deque can produce: a crash, or a String
\* of whatever bytes the memory holds
Wild ==
    {[crash |-> TRUE, text |-> <<>>], noWild, [crash |-> FALSE, text |-> <<97>>]}

\* the member initialisers of GenericCLI::GenericCLI
blankCLI ==
    [config |-> defaultConfig,
     commands |-> <<>>,
     inputBuffer |-> <<>>,
     commandHistory |-> <<>>,
     historyIndex |-> -1,
     inHistoryMode |-> FALSE,
     savedInput |-> <<>>,
     cursorPos |-> 0,
     isRunning |-> FALSE]

\* GenericCLI::GenericCLI: the four built-in registrations
GenericCLI ==
    LET m0 == Machine(blankCLI, <<>>, noWild)
        m1 == registerCommand(m0, str_help, "handleHelpCommand", FALSE)
        m2 == registerCommand(m1, str_history, "handleHistoryCommand", FALSE)
        m3 == registerCommand(m2, str_clear, "handleClearCommand", FALSE)
        m4 == registerCommand(m3, str_exit, "handleExitCommand", FALSE)
    IN  m4.cli

Init ==
    /\ g_exitRequested = FALSE
    /\ cli = GenericCLI
    /\ serialIn = <<>>
    /\ serialOut = <<>>
    /\ aborted = "no"
    /\ lastCall = [op |-> "GenericCLI", arg |-> <<>>]
    /\ fed = 0
    /\ parsed = emptyArgs

----------------------------------------------------------------------------
\* The calls of the embedder, one action each.

\* how a call that ran machine r ends: normally, by a crash, or by a fault
\* that left the call
outcome(r) ==
    IF r.crashed THEN "crash" ELSE IF r.fault THEN "uncaught" ELSE "no"

\* the state after a call that ran machine r
Finish(r, op, arg) ==
    /\ cli' = r.cli
    /\ serialIn' = r.in
    /\ serialOut' = r.out
    /\ aborted' = outcome(r)
    /\ lastCall' = [op |-> op, arg |-> arg]
    /\ g_exitRequested' = r.exitRequested

\* the model's scope: what stays in the buffer and the transport between
\* two calls
InScope(r) ==
    /\ Len(r.cli.inputBuffer) <= MaxLen
    /\ Len(r.in) <= MaxPending

\* GenericCLI::begin; the model follows engines whose history capacity the
\* embedder has set within MaxHist before the start
Begin ==
    /\ aborted = "no"
    /\ cli.config.historySize <= MaxHist
    /\ Finish(Machine([cli EXCEPT !.isRunning = TRUE], serialIn, noWild),
              "begin", <<>>)
    /\ UNCHANGED <<fed, parsed>>

\* bytes b arrive on the transport, then the embedder's loop calls update()
Poll(b) ==
    /\ aborted = "no"
    /\ LET input == serialIn \o b
           r0 == update(Machine(cli, input, noWild))
       IN  \E w \in (IF r0.ub THEN Wild ELSE {noWild}) :
              LET r == update(Machine(cli, input, w))
              IN  /\ InScope(r)
                  /\ Finish(r, "update", input)
    /\ UNCHANGED <<fed, parsed>>

\* GenericCLI::setHistorySize
SetHistorySize(n) ==
    /\ aborted = "no"
    /\ Finish(Machine(setHistorySize(cli, n), serialIn, noWild),
              "setHistorySize", n)
    /\ UNCHANGED <<fed, parsed>>

\* GenericCLI::setEchoEnabled
SetEchoEnabled(e) ==
    /\ aborted = "no"
    /\ Finish(Machine(setEchoEnabled(cli, e), serialIn, noWild),
              "setEchoEnabled", e)
    /\ UNCHANGED <<fed, parsed>>

\* GenericCLI::setConfig
SetConfig(cfg) ==
    /\ aborted = "no"
    /\ Finish(Machine(setConfig(cli, cfg), serialIn, noWild), "setConfig", cfg)
    /\ UNCHANGED <<fed, parsed>>

\* GenericCLI::clearHistory, called by the embedder
ClearHistory ==
    /\ aborted = "no"
    /\ Finish(Machine(clearHistory(cli), serialIn, noWild),
              "clearHistory", <<>>)
    /\ UNCHANGED <<fed, parsed>>

\* GenericCLI::registerCommand, called by the embedder
RegisterCommand(name, cb) ==
    /\ aborted = "no"
    /\ Finish(registerCommand(Machine(cli, serialIn, noWild), name, cb, FALSE),
              "registerCommand", <<name, cb>>)
    /\ UNCHANGED <<fed, parsed>>

\* GenericCLI::unregisterCommand, called by the embedder
UnregisterCommand(name) ==
    /\ aborted = "no"
    /\ Finish(Machine(unregisterCommand(cli, name), serialIn, noWild),
              "unregisterCommand", name)
    /\ UNCHANGED <<fed, parsed>>

\* GenericCLI::clearCommands, called by the embedder
ClearCommands ==
    /\ aborted = "no"
    /\ Finish(Machine(clearCommands(cli), serialIn, noWild),
              "clearCommands", <<>>)
    /\ UNCHANGED <<fed, parsed>>

\* CLIStandardCommands::registerExitCommand
registerExitCommand(m) == registerCommand(m, str_exit, "handleExit", FALSE)

\* CLIStandardCommands::registerExitCommand, called by the embedder
RegisterExitCommand ==
    /\ aborted = "no"
    /\ Finish(registerExitCommand(Machine(cli, serialIn, noWild)),
              "registerExitCommand", <<>>)
    /\ UNCHANGED <<fed, parsed>>

\* CLIStandardCommands::resetExitFlag, called by the embedder
ResetExitFlag ==
    /\ aborted = "no"
    /\ Finish(resetExitFlag(Machine(cli, serialIn, noWild)),
              "resetExitFlag", <<>>)
    /\ UNCHANGED <<fed, parsed>>

\* GenericCLI::registerCommand(const CLICommand&), called by the embedder
RegisterCLICommand(name, cb, hidden) ==
    /\ aborted = "no"
    /\ Finish(registerCommand(Machine(cli, serialIn, noWild), name, cb, hidden),
              "registerCommand", <<name, cb, hidden>>)
    /\ UNCHANGED <<fed, parsed>>

\* GenericCLI::executeCommand, called by the embedder
ExecuteCommand(line) ==
    /\ aborted = "no"
    /\ Finish(executeCommand(Machine(cli, serialIn, noWild), line),
              "executeCommand", line)
    /\ UNCHANGED <<fed, parsed>>

----------------------------------------------------------------------------
\* The editor under key presses: Spec.

\* the byte sequences the terminal sends for the keys
keyUp == <<ESC, LBRACKET, 65>>
keyDown == <<ESC, LBRACKET, 66>>
keyRight == <<ESC, LBRACKET, 67>>
keyLeft == <<ESC, LBRACKET, 68>>
keyHome == <<ESC, LBRACKET, 72>>
keyEnd == <<ESC, LBRACKET, 70>>
keyDelete == <<ESC, LBRACKET, DIGIT3, TILDE>>

RECURSIVE repeat(_, _)
\* n times the byte sequence k
repeat(k, n) == IF n = 0 THEN <<>> ELSE k \o repeat(k, n - 1)

\* n history-up keys, then n history-down keys
upDown(n) == repeat(keyUp, n) \o repeat(keyDown, n)

\* what the user types in Spec: one key per call, or a navigation round trip
Keys ==
    {<<97>>, <<CR>>, <<BS>>, keyUp, keyDown, keyRight, keyLeft,
     keyHome, keyEnd, keyDelete}
    \cup {upDown(n) : n \in 1..MaxNav}

\* the configurations the embedder sets in Spec
Configs ==
    [echoEnabled : BOOLEAN, caseSensitive : {FALSE}, historySize : 0..MaxHist]

\* the lines the embedder passes to executeCommand in Spec: "a", "aa"
EditLines == {<<97>>, <<97, 97>>}

Next ==
    \/ Begin
    \/ \E b \in Keys : Poll(b)
    \/ \E n \in 0..MaxHist : SetHistorySize(n)
    \/ \E e \in BOOLEAN : SetEchoEnabled(e)
    \/ \E cfg \in Configs : SetConfig(cfg)
    \/ ClearHistory
    \/ \E line \in EditLines : ExecuteCommand(line)

Spec == Init /\ [][Next]_vars

----------------------------------------------------------------------------
\* The registry and the dispatcher under whole lines: SpecRegistry.

\* history capacity the embedder configures in SpecRegistry
MaxRegHist == 1

\* the registrations the embedder makes: "a" with a callback that returns
\* and with one that throws, "A", and "exit" over the built-in
Registrations ==
    {<<<<97>>, "userA">>, <<<<97>>, "userThrow">>,
     <<<<65>>, "userB">>, <<str_exit, "userA">>}

\* the lines the embedder passes to executeCommand: "a", "A", "b"
RegLines == {<<97>>, <<65>>, <<98>>}

\* what arrives between two update() calls: nothing, a one-letter line, a
\* submit byte, or the line "exit", alone or with a byte after its submit
RegBursts ==
    {<<>>, <<97, CR>>, <<65, CR>>, <<97, LF>>, <<CR>>,
     str_exit \o <<CR>>, str_exit \o <<CR, 97>>}

\* the configurations the embedder sets in SpecRegistry
RegConfigs ==
    [echoEnabled : {TRUE}, caseSensitive : BOOLEAN, historySize : {MaxRegHist}]

NextRegistry ==
    \/ Begin
    \/ \E b \in RegBursts : Poll(b)
    \/ \E cfg \in RegConfigs : SetConfig(cfg)
    \/ \E reg \in Registrations : RegisterCommand(reg[1], reg[2])
    \/ \E line \in RegLines : ExecuteCommand(line)

SpecRegistry == Init /\ [][NextRegistry]_vars

----------------------------------------------------------------------------
\* A session of whole lines, built-in commands included: SpecSession.

\* the lines of the session: a space; --f; a; a b --f; "a with the quote
\* left open; b; help; history clear; exit
SessionLines ==
    {<<SPACE>>, <<DASH, DASH, 102>>, <<97>>,
     <<97, SPACE, 98, SPACE, DASH, DASH, 102>>, <<QUOTE, 97>>, <<98>>,
     str_help, str_history, str_history \o <<SPACE>> \o str_clear, str_exit}

\* what the user types on an empty buffer: a line and its line ending, CR
\* or CR LF
SessionBursts ==
    {line \o <<CR>> : line \in SessionLines}
    \cup {line \o <<CR, LF>> : line \in SessionLines}

\* the keys the user presses at any time: submit (CR or LF), history-up
SessionKeys == {<<CR>>, <<LF>>, keyUp}

\* the lines the embedder passes to executeCommand: a space; --f; a b --f;
\* help
DirectLines ==
    {<<SPACE>>, <<DASH, DASH, 102>>,
     <<97, SPACE, 98, SPACE, DASH, DASH, 102>>, str_help}

\* the registrations of "a"
SessionRegistrations ==
    {<<<<97>>, "userA", FALSE>>, <<<<97>>, "userA", TRUE>>,
     <<<<97>>, "userThrow", FALSE>>}

\* the configuration the embedder sets in SpecSession
SessionConfigs ==
    [echoEnabled : {TRUE}, caseSensitive : {FALSE},
     historySize : {0, MaxRegHist}]

\* the embedder configures the engine, starts it (again, after an exit) and
\* registers commands; while the engine runs the user types lines on an
\* empty buffer and presses keys
NextSession ==
    \/ lastCall.op = "GenericCLI" /\ \E cfg \in SessionConfigs : SetConfig(cfg)
    \/ \E reg \in SessionRegistrations :
          RegisterCLICommand(reg[1], reg[2], reg[3])
    \/ ~cli.isRunning /\ Begin
    \/ cli.isRunning /\ cli.inputBuffer = <<>>
          /\ \E b \in SessionBursts : Poll(b)
    \/ cli.isRunning /\ \E b \in SessionKeys : Poll(b)
    \/ \E line \in DirectLines : ExecuteCommand(line)
    \/ ClearHistory

SpecSession == Init /\ [][NextSession]_vars

----------------------------------------------------------------------------
\* The exit command of the standard command set: SpecStandard.

\* exit --force
exitForce == str_exit \o <<SPACE, DASH, DASH>> \o str_force

\* what the user answers to the confirmation: y, Y, yes, n, no, x and yes!
\* with a submit byte; a lone submit byte; y and n with no submit byte;
\* nothing
ExitReplies ==
    {str_y \o <<CR>>, <<89, CR>>, str_yes \o <<LF>>, str_n \o <<CR>>,
     str_no \o <<CR>>, <<120, CR>>, str_yes \o <<33, CR>>, <<CR>>,
     str_y, str_n, <<>>}

\* what arrives between two update() calls: exit and a reply, exit --force
\* alone or with a byte after it, or the byte a
StandardBursts ==
    {str_exit \o <<CR>> \o reply : reply \in ExitReplies}
    \cup {exitForce \o <<CR>>, exitForce \o <<CR, 97>>, <<97>>}

\* the exit of the standard command set is the registered one
standardExitRegistered ==
    \E i \in 1..Len(cli.commands) : cli.commands[i].callback = "handleExit"

\* the embedder configures the engine, registers the standard exit and
\* starts the engine; then bytes arrive and the flag is reset
NextStandard ==
    \/ lastCall.op = "GenericCLI" /\ \E cfg \in SessionConfigs : SetConfig(cfg)
    \/ ~standardExitRegistered /\ RegisterExitCommand
    \/ ~cli.isRunning /\ Begin
    \/ standardExitRegistered /\ \E b \in StandardBursts : Poll(b)
    \/ ResetExitFlag

SpecStandard == Init /\ [][NextStandard]_vars

----------------------------------------------------------------------------
\* Escape sequences, whole, cut short and unknown: SpecEscape.

\* sequences cut short: ESC; ESC [; ESC [ 3
PartialSequences ==
    {<<ESC>>, <<ESC, LBRACKET>>, <<ESC, LBRACKET, DIGIT3>>}

\* sequences that are none of the seven: ESC [ 5 ~; ESC [ 3 a; ESC O P;
\* ESC [ Z
UnknownSequences ==
    {<<ESC, LBRACKET, 53, TILDE>>, <<ESC, LBRACKET, DIGIT3, 97>>,
     <<ESC, 79, 80>>, <<ESC, LBRACKET, 90>>}

\* what arrives between two update() calls in SpecEscape
EscapeBursts ==
    PartialSequences \cup UnknownSequences
    \cup {<<97>>, <<CR>>, keyLeft, keyUp, <<97, CR, 97>>}
    \cup {<<BS>>, <<DEL>>, keyDelete, <<9>>, <<200>>}

\* the configurations the embedder sets in SpecEscape: no history kept
EscapeConfigs ==
    [echoEnabled : BOOLEAN, caseSensitive : {FALSE}, historySize : {0}]

\* the embedder configures and starts the engine; bytes arrive while it runs
NextEscape ==
    \/ lastCall.op = "GenericCLI" /\ \E cfg \in EscapeConfigs : SetConfig(cfg)
    \/ ~cli.isRunning /\ Begin
    \/ cli.isRunning /\ \E b \in EscapeBursts : Poll(b)

SpecEscape == Init /\ [][NextEscape]_vars

----------------------------------------------------------------------------
\* Message formatting: SpecFormat.

\* enum class MessageType
MessageType == {"SUCCESS", "ERROR", "WARNING", "INFO", "NORMAL"}

\* formatMessage without the reset at the end of a colored message
formatMessage_noReset(colorsEnabled, type, message) ==
    IF ~colorsEnabled
    THEN CASE type = "SUCCESS" -> <<83, 85, 67, 67, 69, 83, 83, 58, 32>> \o message
           [] type = "ERROR" -> <<69, 82, 82, 79, 82, 58, 32>> \o message
           [] type = "WARNING" -> <<87, 65, 82, 78, 73, 78, 71, 58, 32>> \o message
           [] type = "INFO" -> <<73, 78, 70, 79, 58, 32>> \o message
           [] OTHER -> message
    ELSE CASE type = "SUCCESS" ->
                <<27, 91, 51, 50, 109>> \o <<226, 156, 147>> \o <<32>> \o message
           [] type = "ERROR" ->
                <<27, 91, 51, 49, 109>> \o <<226, 156, 151>> \o <<32>> \o message
           [] type = "WARNING" ->
                <<27, 91, 51, 51, 109>> \o <<226, 154, 160>> \o <<32>> \o message
           [] type = "INFO" ->
                <<27, 91, 51, 54, 109>> \o <<226, 132, 185>> \o <<32>> \o message
           [] OTHER -> message

\* GenericCLI::formatMessage; colorsEnabled is config.colorsEnabled
formatMessage(colorsEnabled, type, message) ==
    IF ~colorsEnabled
    THEN CASE type = "SUCCESS" -> <<83, 85, 67, 67, 69, 83, 83, 58, 32>> \o message
           [] type = "ERROR" -> <<69, 82, 82, 79, 82, 58, 32>> \o message
           [] type = "WARNING" -> <<87, 65, 82, 78, 73, 78, 71, 58, 32>> \o message
           [] type = "INFO" -> <<73, 78, 70, 79, 58, 32>> \o message
           [] OTHER -> message
    ELSE CASE type = "SUCCESS" ->
                <<27, 91, 51, 50, 109>> \o <<226, 156, 147>> \o <<32>> \o message
                   \o <<27, 91, 48, 109>>
           [] type = "ERROR" ->
                <<27, 91, 51, 49, 109>> \o <<226, 156, 151>> \o <<32>> \o message
                   \o <<27, 91, 48, 109>>
           [] type = "WARNING" ->
                <<27, 91, 51, 51, 109>> \o <<226, 154, 160>> \o <<32>> \o message
                   \o <<27, 91, 48, 109>>
           [] type = "INFO" ->
                <<27, 91, 51, 54, 109>> \o <<226, 132, 185>> \o <<32>> \o message
                   \o <<27, 91, 48, 109>>
           [] OTHER -> message

\* longest message text
MaxText == 2

\* the message texts: up to MaxText bytes out of a, space, ESC
Texts == UNION {[1..n -> {97, SPACE, ESC}] : n \in 0..MaxText}

\* what print() is called with, and the colors setting of the engine
FormatInputs ==
    [type : MessageType, message : Texts, colorsEnabled : BOOLEAN]

\* a constructed engine and a message about to be printed
InitFormat ==
    /\ g_exitRequested = FALSE
    /\ cli = GenericCLI
    /\ serialIn = <<>>
    /\ serialOut = <<>>
    /\ aborted = "no"
    /\ lastCall \in {[op |-> "message", arg |-> x] : x \in FormatInputs}
    /\ fed = 0
    /\ parsed = emptyArgs

\* GenericCLI::print: Serial.print(formatMessage(type, message))
PrintMessage ==
    /\ lastCall.op = "message"
    /\ serialOut' = <<[ev |-> "print",
                       text |-> formatMessage(lastCall.arg.colorsEnabled,
                                              lastCall.arg.type,
                                              lastCall.arg.message)]>>
    /\ lastCall' = [lastCall EXCEPT !.op = "print"]
    /\ UNCHANGED <<cli, serialIn, aborted, fed, parsed, g_exitRequested>>

NextFormat == PrintMessage

SpecFormat == InitFormat /\ [][NextFormat]_vars

----------------------------------------------------------------------------
\* The end-to-end scenario: SpecPing.  The embedder configures the engine,
\* starts it and registers "ping"; the transport then delivers the bytes
\* p, i, n, g and a submit byte, cut into calls of update() in every way.

\* the configurations the embedder sets in SpecPing
PingConfigs ==
    [echoEnabled : BOOLEAN, caseSensitive : BOOLEAN, historySize : 0..MaxHist]

\* "ping" is registered
pingRegistered ==
    \E i \in 1..Len(cli.commands) : cli.commands[i].name = str_ping

\* the next k bytes of the script arrive, then update() is called
PollScript(k, submit) ==
    /\ aborted = "no"
    /\ cli.isRunning
    /\ pingRegistered
    /\ fed + k <= Len(str_ping) + 1
    /\ LET chunk == SubSeq(str_ping \o <<submit>>, fed + 1, fed + k)
       IN  Finish(update(Machine(cli, serialIn \o chunk, noWild)),
                  "update", serialIn \o chunk)
    /\ fed' = fed + k
    /\ UNCHANGED parsed

NextPing ==
    \/ lastCall.op = "GenericCLI" /\ \E cfg \in PingConfigs : SetConfig(cfg)
    \/ ~cli.isRunning /\ Begin
    \/ ~pingRegistered /\ \E cb \in UserCallbacks : RegisterCommand(str_ping, cb)
    \/ \E k \in 1..(Len(str_ping) + 1), submit \in {CR, LF} : PollScript(k, submit)

SpecPing == Init /\ [][NextPing]_vars

----------------------------------------------------------------------------
\* The tokenizer on lines built from tokens: SpecTokens.

\* most tokens on a line
MaxTokens == 3

\* most spaces between two tokens
MaxGap == 2

\* a token the user types: a plain word, --name=value, --name, a quoted
\* span, or a quote opened and not closed
Token(kind, name, text) == [kind |-> kind, name |-> name, text |-> text]

\* the bytes of a token
render(t) ==
    CASE t.kind = "plain" -> t.text
      [] t.kind = "valued" -> <<DASH, DASH>> \o t.name \o <<EQUALS>> \o t.text
      [] t.kind = "bare" -> <<DASH, DASH>> \o t.name
      [] t.kind = "quoted" -> <<QUOTE>> \o t.text \o <<QUOTE>>
      [] t.kind = "open" -> <<QUOTE>> \o t.text

RECURSIVE joinTokens(_, _)
\* the line: the tokens with gap spaces between two of them
joinTokens(toks, gap) ==
    IF toks = <<>> THEN <<>>
    ELSE IF Len(toks) = 1 THEN render(toks[1])
    ELSE render(toks[1]) \o [i \in 1..gap |-> SPACE] \o joinTokens(Tail(toks), gap)

\* flag names f, g and the values a, the empty value, a=b
FlagNames == {<<102>>, <<103>>}
FlagValues == {<<97>>, <<>>, <<97, EQUALS, 98>>}

\* the tokens of the generated lines: a, b; --f=.., --g=..; --f, --g;
\* "a b", ""; "a b without the closing quote
Tokens ==
    {Token("plain", <<>>, x) : x \in {<<97>>, <<98>>}}
    \cup {Token("valued", n, v) : n \in FlagNames, v \in FlagValues}
    \cup {Token("bare", n, <<>>) : n \in FlagNames}
    \cup {Token("quoted", <<>>, x) : x \in {<<97, SPACE, 98>>, <<>>}}
    \cup {Token("open", <<>>, <<97, SPACE, 98>>)}

\* the lines of up to MaxTokens tokens
TokenLists == UNION {[1..n -> Tokens] : n \in 0..MaxTokens}

\* led blink --count=5 --delay=200
ledExample ==
    <<Token("plain", <<>>, <<108, 101, 100>>),
      Token("plain", <<>>, <<98, 108, 105, 110, 107>>),
      Token("valued", <<99, 111, 117, 110, 116>>, <<53>>),
      Token("valued", <<100, 101, 108, 97, 121>>, <<50, 48, 48>>)>>

\* wifi connect "My Network" pw
wifiExample ==
    <<Token("plain", <<>>, <<119, 105, 102, 105>>),
      Token("plain", <<>>, <<99, 111, 110, 110, 101, 99, 116>>),
      Token("quoted", <<>>, <<77, 121, SPACE, 78, 101, 116, 119, 111, 114, 107>>),
      Token("plain", <<>>, <<112, 119>>)>>

\* the lines the tokenizer is given: the generated ones with every gap, and
\* the two examples
TokenInputs ==
    {[tokens |-> toks, gap |-> gap] : toks \in TokenLists, gap \in 1..MaxGap}
    \cup {[tokens |-> toks, gap |-> 1] : toks \in {ledExample, wifiExample}}

\* a constructed engine and a line about to be tokenized
InitTokens ==
    /\ g_exitRequested = FALSE
    /\ cli = GenericCLI
    /\ serialIn = <<>>
    /\ serialOut = <<>>
    /\ aborted = "no"
    /\ lastCall \in {[op |-> "line", arg |-> x] : x \in TokenInputs}
    /\ fed = 0
    /\ parsed = emptyArgs

\* parseArguments is called on the line
Tokenize ==
    /\ lastCall.op = "line"
    /\ parsed' = parseArguments(joinTokens(lastCall.arg.tokens, lastCall.arg.gap))
    /\ lastCall' = [lastCall EXCEPT !.op = "parseArguments"]
    /\ UNCHANGED <<cli, serialIn, serialOut, aborted, fed, g_exitRequested>>

NextTokens == Tokenize

SpecTokens == InitTokens /\ [][NextTokens]_vars

----------------------------------------------------------------------------
\* Claims about the editor, checked under Spec.

\* s is the end of t
IsSuffix(s, t) ==
    Len(s) <= Len(t) /\ s = SubSeq(t, Len(t) - Len(s) + 1, Len(t))

\* s is the start of t
IsPrefix(s, t) == Len(s) <= Len(t) /\ s = SubSeq(t, 1, Len(s))

\* the smaller of two numbers
Min(a, b) == IF a < b THEN a ELSE b

\* how many submit bytes a byte sequence holds
Submits(bytes) == Cardinality({i \in 1..Len(bytes) : bytes[i] \in {CR, LF}})

\* C1: in every reachable state the cursor offset is within
\* [0, length of the input buffer].
CursorWithinBuffer ==
    cli.cursorPos >= 0 /\ cli.cursorPos <= Len(cli.inputBuffer)

\* C1 witness: keys have moved the cursor strictly inside a two-byte line
CursorInsideLine ==
    /\ lastCall.op = "update"
    /\ Len(cli.inputBuffer) = 2
    /\ cli.cursorPos = 1

\* a step of setHistorySize or setConfig keeps exactly the newest entries
\* that fit the new capacity, in their order
CapacityStepDropsOldest ==
    lastCall'.op \in {"setHistorySize", "setConfig"} =>
        /\ IsSuffix(cli'.commandHistory, cli.commandHistory)
        /\ Len(cli'.commandHistory) =
              Min(Len(cli.commandHistory), cli'.config.historySize)

\* an update() step keeps a newest part of the old history, in its order, as
\* the start of the new one; it drops old entries only when the new history
\* is full, and adds at most one entry per submit byte
SubmitStepDropsOldest ==
    (lastCall'.op = "update"
       /\ [ev |-> "HistoryCleared"] \notin {serialOut'[i] : i \in 1..Len(serialOut')})
    => \E j \in 0..Len(cli.commandHistory) :
          LET kept == SubSeq(cli.commandHistory, j + 1, Len(cli.commandHistory))
          IN  /\ IsPrefix(kept, cli'.commandHistory)
              /\ j > 0 => Len(cli'.commandHistory) = cli'.config.historySize
              /\ Len(cli'.commandHistory) - Len(kept) <= Submits(lastCall'.arg)

\* a lone submit byte on a line that is not the newest entry appends the
\* line and keeps the newest entries that fit
LoneSubmitAppends ==
    (lastCall'.op = "update" /\ lastCall'.arg \in {<<CR>>, <<LF>>}
       /\ cli.isRunning /\ cli.inputBuffer # <<>>
       /\ (cli.commandHistory = <<>>
             \/ cli.commandHistory[Len(cli.commandHistory)] # cli.inputBuffer))
    => LET all == Append(cli.commandHistory, cli.inputBuffer)
       IN  /\ IsSuffix(cli'.commandHistory, all)
           /\ Len(cli'.commandHistory) = Min(Len(all), cli'.config.historySize)

\* C2: the history never holds more entries than the configured capacity;
\* entries dropped to respect the capacity are the oldest, and the entries
\* that remain keep their relative order.
HistoryBoundedOldestFirst ==
    /\ [](Len(cli.commandHistory) <= cli.config.historySize)
    /\ [][CapacityStepDropsOldest /\ SubmitStepDropsOldest
             /\ LoneSubmitAppends]_vars

\* C2 witness: a submission into a full history of two has evicted the
\* oldest entry (the entries differ, the newest is the line just submitted)
HistoryFullAfterSubmit ==
    /\ lastCall.op = "update"
    /\ lastCall.arg = <<CR>>
    /\ cli.config.historySize = 2
    /\ Len(cli.commandHistory) = 2
    /\ cli.commandHistory = <<<<97, 97>>, <<97>>>>
    /\ serialOut # <<>>

\* C7: from Editing mode with a non-empty history, n history-up keys
\* followed by n history-down keys restore the buffer to the text it had
\* before browsing began and leave the editor in Editing mode.
UpDownRestoresBuffer ==
    [][\A n \in 1..MaxNav :
          (/\ lastCall'.op = "update"
           /\ lastCall'.arg = upDown(n)
           /\ cli.isRunning
           /\ ~cli.inHistoryMode
           /\ cli.commandHistory # <<>>)
          => /\ cli'.inputBuffer = cli.inputBuffer
             /\ ~cli'.inHistoryMode
             /\ aborted' = "no"]_vars

\* C7 witness: a round trip of two ups and two downs over a history of two
\* has ended in Editing mode with a non-empty line in the buffer
UpDownDone ==
    /\ lastCall.op = "update"
    /\ lastCall.arg = upDown(2)
    /\ Len(cli.commandHistory) = 2
    /\ cli.inputBuffer # <<>>
    /\ cli.savedInput = cli.inputBuffer
    /\ ~cli.inHistoryMode

\* what C10 compares of two engines: buffer, cursor, mode, history
Editing(c) ==
    [inputBuffer |-> c.inputBuffer, cursorPos |-> c.cursorPos,
     inHistoryMode |-> c.inHistoryMode, commandHistory |-> c.commandHistory]

\* the commands a call dispatched
Dispatched(out) == SelectSeq(out, LAMBDA e : e.ev \in {"call", "UnknownCommand"})

\* C10: the echo flag does not affect editing: an engine in the same state
\* but for the echo flag reaches, on the same bytes, the same buffer, cursor,
\* mode and history and dispatches the same commands.
EchoDoesNotAffectEditing ==
    [][(lastCall'.op = "update" /\ aborted' = "no")
          => LET twin == update(Machine(
                            setEchoEnabled(cli, ~cli.config.echoEnabled),
                            lastCall'.arg, noWild))
             IN  ~twin.ub =>
                    /\ Editing(twin.cli) = Editing(cli')
                    /\ Dispatched(twin.out) = Dispatched(serialOut')]_vars

----------------------------------------------------------------------------
\* Claims about dispatch.  A step dispatches one line when it is a call of
\* executeCommand, or an update() on printable bytes typed at the end of the
\* buffer and one submit byte.

\* bytes is a run of printable bytes closed by one submit byte
IsLineInput(bytes) ==
    /\ bytes # <<>>
    /\ bytes[Len(bytes)] \in {CR, LF}
    /\ \A i \in 1..(Len(bytes) - 1) :
          bytes[i] >= FirstPrintable /\ bytes[i] <= LastPrintable

\* the step is an update() that submits one line
SubmitsOneLine ==
    /\ lastCall'.op = "update"
    /\ cli.isRunning
    /\ IsLineInput(lastCall'.arg)
    /\ Len(lastCall'.arg) = 1 \/ cli.cursorPos = Len(cli.inputBuffer)
    /\ cli.inputBuffer \o SubSeq(lastCall'.arg, 1, Len(lastCall'.arg) - 1) # <<>>

\* the step dispatches one line
DispatchesOneLine == lastCall'.op = "executeCommand" \/ SubmitsOneLine

\* the line the step dispatches
DispatchedLine ==
    IF lastCall'.op = "executeCommand" THEN lastCall'.arg
    ELSE cli.inputBuffer \o SubSeq(lastCall'.arg, 1, Len(lastCall'.arg) - 1)

\* the entries of registry c that answer to token under the case policy
Answering(c, token) ==
    {i \in 1..Len(c.commands) :
        IF c.config.caseSensitive THEN c.commands[i].name = token
        ELSE toLowerCase(c.commands[i].name) = toLowerCase(token)}

\* the first of them
FirstAnswering(c, token) ==
    CHOOSE i \in Answering(c, token) : \A j \in Answering(c, token) : i <= j

\* the name the dispatcher reports for a token
Reported(c, token) ==
    IF c.config.caseSensitive THEN token ELSE toLowerCase(token)

\* the last n entries of a sequence
Newest(h, n) == SubSeq(h, Len(h) - Min(Len(h), n) + 1, Len(h))

\* the history after the submission of a non-empty line
AfterSubmission(c, line) ==
    IF c.commandHistory # <<>> /\ c.commandHistory[Len(c.commandHistory)] = line
    THEN c.commandHistory
    ELSE Newest(Append(c.commandHistory, line), c.config.historySize)

\* the step dispatches a line whose first token answers to no entry
DispatchesUnknown ==
    /\ DispatchesOneLine
    /\ parseArguments(DispatchedLine).positional # <<>>
    /\ Answering(cli, parseArguments(DispatchedLine).positional[1]) = {}

\* what C3 says of such a step, but for the history
UnknownIsReported ==
    /\ serialOut' =
          <<[ev |-> "UnknownCommand",
             name |-> Reported(cli, parseArguments(DispatchedLine).positional[1])]>>
    /\ cli'.commands = cli.commands
    /\ aborted' = "no"
    /\ cli'.isRunning = cli.isRunning

\* C3 as stated: a line whose first token is not registered is reported as
\* UnknownCommand and leaves history and registry as they were, by either
\* path.
UnknownLeavesHistory ==
    [][DispatchesUnknown =>
          /\ UnknownIsReported
          /\ cli'.commandHistory = cli.commandHistory]_vars

\* C3 amended: a line whose first token is not registered is reported as
\* UnknownCommand, leaves the registry as it was, raises nothing and keeps
\* the engine running; executeCommand leaves the history as it was, and a
\* submit event appends the line under the submission rules.
UnknownIsReportedAndStored ==
    [][DispatchesUnknown =>
          /\ UnknownIsReported
          /\ cli'.commandHistory =
                IF lastCall'.op = "executeCommand" THEN cli.commandHistory
                ELSE AfterSubmission(cli, DispatchedLine)]_vars

\* C3 witness: the submitted line "a" was reported unknown and is now the
\* history
UnknownSubmitted ==
    /\ lastCall.op = "update"
    /\ lastCall.arg = <<CR>>
    /\ serialOut = <<[ev |-> "UnknownCommand", name |-> <<97>>]>>
    /\ cli.commandHistory = <<<<97>>>>
    /\ cli.isRunning

\* C4: once the built-in exit has stopped the engine, no byte is decoded,
\* applied or dispatched: not the bytes still unread in the same update()
\* call, nor the bytes of later calls.
StoppedReadsNothing ==
    [][lastCall'.op = "update" =>
          /\ ~cli.isRunning =>
                /\ cli' = cli
                /\ serialOut' = <<>>
                /\ serialIn' = lastCall'.arg
          /\ (cli.isRunning /\ ~cli'.isRunning) =>
                /\ cli'.inputBuffer = <<>>
                /\ serialOut'[Len(serialOut')] = [ev |-> "Goodbye"]
                /\ \E k \in 1..Len(lastCall'.arg) :
                      /\ lastCall'.arg[k] \in {CR, LF}
                      /\ serialIn' =
                            SubSeq(lastCall'.arg, k + 1, Len(lastCall'.arg))]_vars

\* the step dispatches a line to an entry whose callback throws
DispatchesThrowing ==
    /\ DispatchesOneLine
    /\ parseArguments(DispatchedLine).positional # <<>>
    /\ Answering(cli, parseArguments(DispatchedLine).positional[1]) # {}
    /\ cli.commands[FirstAnswering(cli,
           parseArguments(DispatchedLine).positional[1])].callback = "userThrow"

\* the step dispatches a line to an entry of the embedder that returns
DispatchesReturning ==
    /\ DispatchesOneLine
    /\ parseArguments(DispatchedLine).positional # <<>>
    /\ Answering(cli, parseArguments(DispatchedLine).positional[1]) # {}
    /\ cli.commands[FirstAnswering(cli,
           parseArguments(DispatchedLine).positional[1])].callback
          \in {"userA", "userB"}

\* C5: a fault raised by a handler is caught at the dispatcher and reported
\* as CommandFailure; it never leaves executeCommand or update(); the engine
\* keeps running, the registry is unchanged, the submission completes as any
\* other, and the next line is dispatched normally.
FaultIsContained ==
    /\ [](aborted # "uncaught")
    /\ [][DispatchesThrowing =>
             /\ Len(serialOut') = 2
             /\ serialOut'[1].ev = "call"
             /\ serialOut'[1].callback = "userThrow"
             /\ serialOut'[2] = [ev |-> "CommandFailure"]
             /\ aborted' = "no"
             /\ cli'.isRunning = cli.isRunning
             /\ cli'.commands = cli.commands
             /\ lastCall'.op = "update" =>
                   /\ cli'.inputBuffer = <<>>
                   /\ cli'.cursorPos = 0
                   /\ cli'.commandHistory = AfterSubmission(cli, DispatchedLine)]_vars
    /\ [][([ev |-> "CommandFailure"] \in {serialOut[i] : i \in 1..Len(serialOut)}
             /\ DispatchesReturning) =>
             /\ Len(serialOut') = 1
             /\ serialOut'[1].ev = "call"
             /\ serialOut'[1].callback =
                   cli.commands[FirstAnswering(cli,
                       parseArguments(DispatchedLine).positional[1])].callback]_vars

\* C5 witness: a submitted line ran a throwing handler; the failure was
\* reported and the engine runs on
FaultReported ==
    /\ lastCall.op = "update"
    /\ Len(serialOut) = 2
    /\ serialOut[1].ev = "call"
    /\ serialOut[2] = [ev |-> "CommandFailure"]
    /\ aborted = "no"
    /\ cli.isRunning
    /\ cli.inputBuffer = <<>>

\* C6: registering a name that answers to an existing entry replaces it:
\* the registry has the same size after the call, and the name is then
\* dispatched to the new handler.
ReplaceKeepsSize ==
    [][(/\ lastCall'.op = "registerCommand"
        /\ \E i \in 1..Len(cli.commands) :
              IF cli.config.caseSensitive
              THEN cli.commands[i].name = lastCall'.arg[1]
              ELSE toLowerCase(cli.commands[i].name) = toLowerCase(lastCall'.arg[1]))
          => /\ Len(cli'.commands) = Len(cli.commands)
             /\ cli'.commands[FirstAnswering(cli', lastCall'.arg[1])].callback =
                   lastCall'.arg[2]]_vars

\* C9: under the case-insensitive policy a token is dispatched to the first
\* entry whose name equals it letter case apart, so that all spellings of a
\* name reach the same command (and none when no entry has the name); under
\* the case-sensitive policy a token that no entry's name equals exactly is
\* reported as UnknownCommand.
LookupFollowsCasePolicy ==
    [][(DispatchesOneLine /\ parseArguments(DispatchedLine).positional # <<>>) =>
          LET token == parseArguments(DispatchedLine).positional[1]
              same == {i \in 1..Len(cli.commands) :
                          toLowerCase(cli.commands[i].name) = toLowerCase(token)}
              exact == {i \in 1..Len(cli.commands) : cli.commands[i].name = token}
              first(S) == CHOOSE i \in S : \A j \in S : i <= j
          IN  /\ (~cli.config.caseSensitive /\ same # {}) =>
                    /\ serialOut'[1].ev = "call"
                    /\ serialOut'[1].callback = cli.commands[first(same)].callback
              /\ (~cli.config.caseSensitive /\ same = {}) =>
                    serialOut' = <<[ev |-> "UnknownCommand",
                                    name |-> toLowerCase(token)]>>
              /\ (cli.config.caseSensitive /\ exact = {}) =>
                    serialOut' = <<[ev |-> "UnknownCommand", name |-> token]>>
              /\ (cli.config.caseSensitive /\ exact # {}) =>
                    /\ serialOut'[1].ev = "call"
                    /\ serialOut'[1].callback = cli.commands[first(exact)].callback]_vars

\* C9 witness: with only "a" registered by the embedder and the policy
\* case-insensitive, the submitted line "A" ran the handler of "a"
UpperCaseReachedLowerCase ==
    /\ lastCall.op = "update"
    /\ lastCall.arg = <<65, CR>>
    /\ ~cli.config.caseSensitive
    /\ \E i \in 1..Len(cli.commands) :
          cli.commands[i].name = <<97>> /\ cli.commands[i].callback = "userA"
    /\ \A i \in 1..Len(cli.commands) : cli.commands[i].name # <<65>>
    /\ Len(serialOut) = 1
    /\ serialOut[1].ev = "call"
    /\ serialOut[1].callback = "userA"

----------------------------------------------------------------------------
\* The end-to-end claim, checked under SpecPing.

\* the calls of handlers a call of the API logged
Calls(out) == SelectSeq(out, LAMBDA e : e.ev = "call")

\* the state C8 expects once the whole script is fed, and no handler run
\* and no history entry before that
PingOutcome ==
    /\ fed < Len(str_ping) + 1 =>
          /\ lastCall.op = "update" => Calls(serialOut) = <<>>
          /\ cli.commandHistory = <<>>
    /\ fed = Len(str_ping) + 1 =>
          /\ Len(Calls(serialOut)) = 1
          /\ \E i \in 1..Len(cli.commands) :
                /\ cli.commands[i].name = str_ping
                /\ Calls(serialOut)[1] =
                      [ev |-> "call", callback |-> cli.commands[i].callback,
                       args |-> emptyArgs]
          /\ cli.commandHistory = <<str_ping>>
          /\ cli.inputBuffer = <<>>
          /\ cli.cursorPos = 0

\* C8 as stated: after registering ping and feeding p, i, n, g and a submit
\* byte to a running engine with an empty history, the ping handler has run
\* exactly once, the history is ["ping"], the buffer is empty and the cursor
\* is 0.
PingEndToEnd == PingOutcome

\* C8 amended: the same, for an engine whose history capacity is at least 1.
PingEndToEndWithCapacity == cli.config.historySize >= 1 => PingOutcome

\* C8 witness: the script is fed, the handler was called in the call that
\* read the submit byte, and the history is ["ping"]
PingDone ==
    /\ fed = Len(str_ping) + 1
    /\ Len(Calls(serialOut)) = 1
    /\ cli.commandHistory = <<str_ping>>
    /\ cli.inputBuffer = <<>>

----------------------------------------------------------------------------
\* Invariants of the registry and of the history.

\* two names are equal under the case policy of c
SameName(c, a, b) ==
    IF c.config.caseSensitive THEN a = b ELSE toLowerCase(a) = toLowerCase(b)

\* C11: no two registry entries have names that are equal under the active
\* case policy.
RegistryNamesUnique ==
    \A i, j \in 1..Len(cli.commands) :
        i # j => ~SameName(cli, cli.commands[i].name, cli.commands[j].name)

\* C12: while the editor browses the history, the browsing index is within
\* [0, history length].
BrowsingIndexWithinHistory ==
    cli.inHistoryMode =>
        cli.historyIndex >= 0 /\ cli.historyIndex <= Len(cli.commandHistory)

\* C13: the history holds no empty string and no two adjacent equal entries.
HistoryHasNoEmptyNoRepeat ==
    /\ \A i \in 1..Len(cli.commandHistory) : cli.commandHistory[i] # <<>>
    /\ \A i \in 1..(Len(cli.commandHistory) - 1) :
          cli.commandHistory[i] # cli.commandHistory[i + 1]

\* C13 witness: a submission has left two entries in the history, after a
\* capacity change to two
TwoEntriesAfterSubmit ==
    /\ lastCall.op = "update"
    /\ lastCall.arg = <<CR>>
    /\ serialOut # <<>>
    /\ cli.config.historySize = 2
    /\ cli.commandHistory = <<<<97>>, <<97, 97>>>>

\* the history after line is typed and submitted k more times to machine
\* state c
RECURSIVE SubmittedAgain(_, _, _)
SubmittedAgain(c, line, k) ==
    IF k = 0 THEN c.commandHistory
    ELSE SubmittedAgain(update(Machine(c, line \o <<CR>>, noWild)).cli, line, k - 1)

\* C14: once a non-empty line has been submitted, submitting the same line
\* again, once or several times in a row, leaves the history as the first
\* submission left it.
RepeatedSubmitIsNoOp ==
    [][(SubmitsOneLine /\ aborted' = "no") =>
          \A k \in {1, 2} :
              SubmittedAgain(cli', DispatchedLine, k) = cli'.commandHistory]_vars

\* C14 witness: the line "a" has been submitted and is the newest of two
\* entries, the state from which the line is submitted again
SameLineSubmittedTwice ==
    /\ lastCall.op = "update"
    /\ lastCall.arg = <<CR>>
    /\ serialOut = <<[ev |-> "UnknownCommand", name |-> <<97>>]>>
    /\ cli.commandHistory = <<<<97, 97>>, <<97>>>>
    /\ cli.inputBuffer = <<>>
    /\ cli.isRunning

----------------------------------------------------------------------------
\* Claims about the tokenizer, checked under SpecTokens.

\* parseArguments has returned
Tokenized == lastCall.op = "parseArguments"

\* every token of toks is of one of the kinds
OfKinds(toks, kinds) == \A i \in 1..Len(toks) : toks[i].kind \in kinds

\* the texts of the plain tokens of toks, in order
PlainTexts(toks) ==
    LET plain == SelectSeq(toks, LAMBDA t : t.kind = "plain")
    IN  [i \in 1..Len(plain) |-> plain[i].text]

\* toks[i] is a flag and no later token has its name
LastOfName(toks, i) ==
    /\ toks[i].kind \in {"valued", "bare"}
    /\ \A j \in (i + 1)..Len(toks) :
          toks[j].kind \in {"valued", "bare"} => toks[j].name # toks[i].name

\* the flag map the grammar gives toks: for each name, the value of the
\* last flag of that name, "true" for a flag without value
FlagMap(toks) ==
    [n \in {toks[i].name : i \in {k \in 1..Len(toks) : LastOfName(toks, k)}} |->
        LET i == CHOOSE k \in 1..Len(toks) : LastOfName(toks, k) /\ toks[k].name = n
        IN  IF toks[i].kind = "bare" THEN str_true ELSE toks[i].text]

\* a value made of characters that mean nothing to the tokenizer
IsWord(v) ==
    /\ v # <<>>
    /\ \A i \in 1..Len(v) : v[i] \notin {SPACE, QUOTE, EQUALS, DASH}

QuotedSpanIsOneToken ==
    (Tokenized /\ OfKinds(lastCall.arg.tokens, {"plain", "quoted"}))
    => /\ parsed.positional =
             [i \in 1..Len(lastCall.arg.tokens) |-> lastCall.arg.tokens[i].text]
       /\ DOMAIN parsed.flags = {}

\* C17: a token --name=value with a value of one character or more sets
\* flags[name] to the text after the first "=" up to the end of the token, a
\* further "=" included, wherever it stands in the line (unless the name is
\* given again), and adds nothing to the positional sequence.
FlagValueIsTextAfterFirstEquals ==
    (/\ Tokenized
     /\ OfKinds(lastCall.arg.tokens, {"plain", "valued", "bare"})
     /\ \A i \in 1..Len(lastCall.arg.tokens) :
           lastCall.arg.tokens[i].kind = "valued" =>
               lastCall.arg.tokens[i].text # <<>>)
    => \A i \in 1..Len(lastCall.arg.tokens) :
          (lastCall.arg.tokens[i].kind = "valued"
             /\ LastOfName(lastCall.arg.tokens, i))
          => /\ lastCall.arg.tokens[i].name \in DOMAIN parsed.flags
             /\ parsed.flags[lastCall.arg.tokens[i].name] =
                   lastCall.arg.tokens[i].text
             /\ \A k \in 1..Len(parsed.positional) :
                   parsed.positional[k] \in
                       {lastCall.arg.tokens[j].text :
                           j \in {n \in 1..Len(lastCall.arg.tokens) :
                                     lastCall.arg.tokens[n].kind = "plain"}}

\* C18: a token --name sets flags[name] to "true" wherever it stands in the
\* line, the value stays "true" unless the name is given again, and the
\* token adds nothing to the positional sequence.
BareFlagIsTrue ==
    (Tokenized /\ OfKinds(lastCall.arg.tokens, {"plain", "valued", "bare"}))
    => \A i \in 1..Len(lastCall.arg.tokens) :
          (lastCall.arg.tokens[i].kind = "bare"
             /\ LastOfName(lastCall.arg.tokens, i))
          => /\ lastCall.arg.tokens[i].name \in DOMAIN parsed.flags
             /\ parsed.flags[lastCall.arg.tokens[i].name] = str_true
             /\ \A k \in 1..Len(parsed.positional) :
                   parsed.positional[k] \notin
                       {lastCall.arg.tokens[i].name, render(lastCall.arg.tokens[i])}

\* C19: the tokens that do not begin with "--" are the positional sequence,
\* in order, whatever flags stand before or after them and however many
\* spaces separate the tokens.
PlainTokensArePositional ==
    (Tokenized /\ OfKinds(lastCall.arg.tokens, {"plain", "valued", "bare"}))
    => parsed.positional = PlainTexts(lastCall.arg.tokens)

\* C20: when the last token of a line opens a quote and does not close it,
\* the text after the quote is one token, the last of the positional
\* sequence.
OpenQuoteTakesRest ==
    (/\ Tokenized
     /\ lastCall.arg.tokens # <<>>
     /\ lastCall.arg.tokens[Len(lastCall.arg.tokens)].kind = "open"
     /\ OfKinds(SubSeq(lastCall.arg.tokens, 1, Len(lastCall.arg.tokens) - 1),
                {"plain", "valued", "bare"}))
    => /\ parsed.positional # <<>>
       /\ parsed.positional[Len(parsed.positional)] =
             lastCall.arg.tokens[Len(lastCall.arg.tokens)].text

----------------------------------------------------------------------------
\* Claims about a session of whole lines, checked under SpecSession.

\* the step dispatches a non-empty line that has no positional token
DispatchesNoToken ==
    /\ DispatchesOneLine
    /\ DispatchedLine # <<>>
    /\ parseArguments(DispatchedLine).positional = <<>>

\* C21: a line of spaces only or of flags only, given to executeCommand or
\* submitted in update(), runs no handler and reports nothing; the registry
\* is as before, executeCommand leaves the history alone and the submit
\* appends the line as it does any other line.
NoTokenDispatchesNothing ==
    [][DispatchesNoToken =>
          /\ serialOut' = <<>>
          /\ aborted' = "no"
          /\ cli'.commands = cli.commands
          /\ cli'.isRunning = cli.isRunning
          /\ cli'.commandHistory =
                IF lastCall'.op = "update"
                THEN AfterSubmission(cli, DispatchedLine)
                ELSE cli.commandHistory]_vars

\* C21 witness: the line --f was submitted; nothing was written and the
\* line is the newest history entry
FlagOnlyLineSubmitted ==
    /\ lastCall.op = "update"
    /\ lastCall.arg = <<DASH, DASH, 102, CR>>
    /\ cli.isRunning
    /\ serialOut = <<>>
    /\ cli.commandHistory # <<>>
    /\ cli.commandHistory[Len(cli.commandHistory)] = <<DASH, DASH, 102>>

\* the step dispatches a line whose first token answers to an entry
DispatchesRegistered ==
    /\ DispatchesOneLine
    /\ parseArguments(DispatchedLine).positional # <<>>
    /\ Answering(cli, parseArguments(DispatchedLine).positional[1]) # {}

\* the entry the step dispatches to
DispatchedEntry ==
    cli.commands[FirstAnswering(cli,
                    parseArguments(DispatchedLine).positional[1])]

\* C22: the dispatch of a registered command calls its handler once, within
\* the dispatching call, with the positional tokens of the line after the
\* first, in their order, and with all the flags of the line.
HandlerGetsRestOfLine ==
    [][DispatchesRegistered =>
          Calls(serialOut') =
             <<[ev |-> "call",
                callback |-> DispatchedEntry.callback,
                args |-> [parseArguments(DispatchedLine) EXCEPT
                             !.positional = Tail(@)]]>>]_vars

\* C22 witness: a b --f was submitted with "a" registered; the handler was
\* called once with the positional b and the flag f
HandlerCalledWithRest ==
    /\ lastCall.op = "update"
    /\ lastCall.arg = <<97, SPACE, 98, SPACE, DASH, DASH, 102, CR>>
    /\ Len(Calls(serialOut)) = 1
    /\ Calls(serialOut)[1].callback = "userA"
    /\ Calls(serialOut)[1].args.positional = <<<<98>>>>
    /\ hasFlag(Calls(serialOut)[1].args, <<102>>)

\* the step is an update() on bytes that end with a submit byte
EndsWithSubmit ==
    /\ lastCall'.op = "update"
    /\ cli.isRunning
    /\ lastCall'.arg # <<>>
    /\ lastCall'.arg[Len(lastCall'.arg)] \in {CR, LF}

\* C23: after a submit, whatever the dispatch did (handler ran, handler
\* fault, unknown command, empty line), the buffer is empty, the cursor is 0
\* and the editor is not browsing the history.
SubmitResetsEditor ==
    [][EndsWithSubmit /\ aborted' = "no" =>
          /\ cli'.inputBuffer = <<>>
          /\ cli'.cursorPos = 0
          /\ ~cli'.inHistoryMode]_vars

\* C23 witness: the submitted line a ran a throwing handler and the editor
\* is reset
FaultSubmitted ==
    /\ lastCall.op = "update"
    /\ lastCall.arg = <<97, CR>>
    /\ \E k \in 1..Len(serialOut) : serialOut[k].ev = "CommandFailure"
    /\ cli.inputBuffer = <<>>
    /\ cli.cursorPos = 0
    /\ ~cli.inHistoryMode

\* the names of the hidden entries of registry c
HiddenNames(c) ==
    {c.commands[i].name : i \in {j \in 1..Len(c.commands) : c.commands[j].hidden}}

\* the elements of a sequence
Range(q) == {q[i] : i \in 1..Len(q)}

\* C25: a hidden entry is in no listing (getCommandNames, the list that help
\* prints), and a line that names it is dispatched to its handler.
HiddenIsUnlistedButDispatched ==
    [][/\ Range(getCommandNames(cli')) \cap HiddenNames(cli') = {}
       /\ \A k \in 1..Len(serialOut') :
             serialOut'[k].ev = "CommandList" =>
                Range(serialOut'[k].names) \cap HiddenNames(cli) = {}
       /\ DispatchesRegistered /\ DispatchedEntry.hidden =>
             /\ Calls(serialOut') # <<>>
             /\ Calls(serialOut')[1].callback = DispatchedEntry.callback]_vars

\* C25 witness: help was submitted while "a" was registered hidden; the
\* list it printed has the four built-in names and not "a"
HelpListedWithoutHidden ==
    /\ lastCall.op = "update"
    /\ lastCall.arg = str_help \o <<CR>>
    /\ HiddenNames(cli) = {<<97>>}
    /\ \E k \in 1..Len(serialOut) :
          /\ serialOut[k].ev = "CommandList"
          /\ serialOut[k].names = <<str_help, str_history, str_clear, str_exit>>

\* C26: the running flag goes from true to false only in a call that runs
\* the built-in exit handler; no key, malformed line, unknown command or
\* handler fault stops the engine.
OnlyExitStops ==
    [][cli.isRunning /\ ~cli'.isRunning =>
          \E k \in 1..Len(serialOut') :
             /\ serialOut'[k].ev = "call"
             /\ serialOut'[k].callback = "handleExitCommand"]_vars

\* C26 witness: the line with the open quote ran a throwing handler and the
\* engine is still running
StillRunningAfterFault ==
    /\ lastCall.op = "update"
    /\ lastCall.arg = <<QUOTE, 97, CR>>
    /\ \E k \in 1..Len(serialOut) : serialOut[k].ev = "CommandFailure"
    /\ cli.isRunning

\* the step is an explicit history clear: clearHistory() called by the
\* embedder, or the line history clear submitted
ClearsHistory ==
    \/ lastCall'.op = "clearHistory"
    \/ /\ SubmitsOneLine
       /\ DispatchedLine = str_history \o <<SPACE>> \o str_clear

\* C29 as stated: after an explicit history clear the history is empty and
\* the editor is not browsing.
ClearLeavesHistoryEmpty ==
    [][ClearsHistory =>
          /\ cli'.commandHistory = <<>>
          /\ ~cli'.inHistoryMode]_vars

\* C29 amended: after clearHistory() the history is empty; after the
\* submission of history clear it holds that line alone, or nothing when
\* the capacity is 0; in both cases the editor is not browsing.
ClearLeavesOnlyTheLine ==
    [][ClearsHistory =>
          /\ cli'.commandHistory =
                IF lastCall'.op = "clearHistory" THEN <<>>
                ELSE Newest(<<DispatchedLine>>, cli.config.historySize)
          /\ ~cli'.inHistoryMode]_vars

\* C29 witness: history clear was submitted and is the only history entry
HistoryClearSubmitted ==
    /\ lastCall.op = "update"
    /\ lastCall.arg = str_history \o <<SPACE>> \o str_clear \o <<CR>>
    /\ \E k \in 1..Len(serialOut) : serialOut[k].ev = "HistoryCleared"
    /\ cli.commandHistory = <<str_history \o <<SPACE>> \o str_clear>>
    /\ ~cli.inHistoryMode

----------------------------------------------------------------------------
\* Claims about keys, checked under Spec.

\* the step is an update() of a running engine on the bytes of one key, all
\* of them arrived since the call before
Presses(key) ==
    /\ lastCall'.op = "update"
    /\ cli.isRunning
    /\ serialIn = <<>>
    /\ lastCall'.arg = key

\* C24: a history-up key with an empty history changes nothing: buffer,
\* cursor, mode, saved snapshot and browsing index are as before, and an
\* editor that was not browsing is not browsing.
UpOnEmptyHistoryIsNoOp ==
    [][Presses(keyUp) /\ cli.commandHistory = <<>> =>
          /\ cli' = cli
          /\ serialOut' = <<>>
          /\ aborted' = "no"]_vars

\* C24 witness: history-up was pressed on the line "a" with an empty
\* history; the editor is not browsing
UpPressedOnEmptyHistory ==
    /\ lastCall.op = "update"
    /\ lastCall.arg = keyUp
    /\ cli.isRunning
    /\ cli.commandHistory = <<>>
    /\ cli.inputBuffer = <<97>>
    /\ cli.cursorPos = 1
    /\ ~cli.inHistoryMode

\* the larger of two numbers
Max(a, b) == IF a >= b THEN a ELSE b

\* buffer and cursor of c after the event of a cursor or erase key
KeyEffect(c, key) ==
    CASE key = keyRight ->
           [c EXCEPT !.cursorPos = Min(@ + 1, Len(c.inputBuffer))]
      [] key = keyLeft -> [c EXCEPT !.cursorPos = Max(@ - 1, 0)]
      [] key = keyHome -> [c EXCEPT !.cursorPos = 0]
      [] key = keyEnd -> [c EXCEPT !.cursorPos = Len(c.inputBuffer)]
      [] key = keyDelete ->
           [c EXCEPT !.inputBuffer =
               SubSeq(@, 1, c.cursorPos) \o SubSeq(@, c.cursorPos + 2, Len(@))]

\* C28: an escape sequence whose bytes are all there in one update() does
\* its event and inserts nothing: ESC [ A and ESC [ B are history-up and
\* history-down, ESC [ C and ESC [ D move the cursor by one within the
\* line, ESC [ H puts it at 0, ESC [ F at the end, ESC [ 3 ~ erases the
\* character at the cursor.
EscapeTriggersItsEvent ==
    [][/\ \A key \in {keyRight, keyLeft, keyHome, keyEnd, keyDelete} :
             Presses(key) =>
                /\ Editing(cli').inputBuffer = KeyEffect(cli, key).inputBuffer
                /\ Editing(cli').cursorPos = KeyEffect(cli, key).cursorPos
                /\ cli'.commandHistory = cli.commandHistory
       /\ Presses(keyUp) /\ ~processArrowUp(Machine(cli, <<>>, noWild)).ub =>
             cli' = processArrowUp(Machine(cli, <<>>, noWild)).cli
       /\ Presses(keyDown) /\ ~processArrowDown(Machine(cli, <<>>, noWild)).ub =>
             cli' = processArrowDown(Machine(cli, <<>>, noWild)).cli]_vars

----------------------------------------------------------------------------
\* Claims about the exit of the standard command set, checked under
\* SpecStandard.

\* C27: from the call in which the standard exit has set the exit-requested
\* flag until resetExitFlag(), an update() reads no byte, changes nothing in
\* the engine and dispatches nothing.
ExitRequestedReadsNothing ==
    [][g_exitRequested /\ lastCall'.op = "update" =>
          /\ cli' = cli
          /\ serialOut' = <<>>
          /\ serialIn' = lastCall'.arg]_vars

\* the step is an update() of a running engine, with the standard exit
\* registered, an empty buffer and the flag unset, on bytes that begin with
\* line and a submit byte
Types(line) ==
    /\ lastCall'.op = "update"
    /\ cli.isRunning
    /\ standardExitRegistered
    /\ cli.inputBuffer = <<>>
    /\ serialIn = <<>>
    /\ ~g_exitRequested
    /\ IsPrefix(line \o <<CR>>, lastCall'.arg)

\* the bytes that follow the line exit and its submit byte
TypedReply == SubSeq(lastCall'.arg, Len(str_exit) + 2, Len(lastCall'.arg))

\* the user closed the reply with a submit byte
ReplyEnded ==
    /\ TypedReply # <<>>
    /\ TypedReply[Len(TypedReply)] \in {CR, LF}

\* the reply is y or yes in any letter case, closed by a submit byte
SaysYes ==
    /\ ReplyEnded
    /\ toLowerCase(SubSeq(TypedReply, 1, Len(TypedReply) - 1)) \in {str_y, str_yes}

----------------------------------------------------------------------------
\* Claims about message formatting, checked under SpecFormat.

\* ANSIColors and ANSIIcons, by message kind
KindColor(type) ==
    CASE type = "SUCCESS" -> <<ESC, LBRACKET, 51, 50, 109>>
      [] type = "ERROR" -> <<ESC, LBRACKET, 51, 49, 109>>
      [] type = "WARNING" -> <<ESC, LBRACKET, 51, 51, 109>>
      [] type = "INFO" -> <<ESC, LBRACKET, 51, 54, 109>>

KindIcon(type) ==
    CASE type = "SUCCESS" -> <<226, 156, 147>>
      [] type = "ERROR" -> <<226, 156, 151>>
      [] type = "WARNING" -> <<226, 154, 160>>
      [] type = "INFO" -> <<226, 132, 185>>

\* ANSIColors::CRESET
ColorReset == <<ESC, LBRACKET, 48, 109>>

\* the tag of a kind: SUCCESS: , ERROR: , WARNING: , INFO: , none
KindTag(type) ==
    CASE type = "SUCCESS" -> <<83, 85, 67, 67, 69, 83, 83, 58, SPACE>>
      [] type = "ERROR" -> <<69, 82, 82, 79, 82, 58, SPACE>>
      [] type = "WARNING" -> <<87, 65, 82, 78, 73, 78, 71, 58, SPACE>>
      [] type = "INFO" -> <<73, 78, 70, 79, 58, SPACE>>
      [] type = "NORMAL" -> <<>>

\* text occurs in s
Contains(s, text) ==
    \E i \in 0..(Len(s) - Len(text)) : SubSeq(s, i + 1, i + Len(text)) = text

\* a message has been printed
Printed == lastCall.op = "print"

\* C31 as stated: the printed message contains the text; with colors
\* disabled it is the tag of the kind and the text, with colors enabled it
\* starts with the color and the icon of the kind and ends with the reset.
FormatTagsOrColors ==
    Printed =>
       /\ Contains(serialOut[1].text, lastCall.arg.message)
       /\ ~lastCall.arg.colorsEnabled =>
             serialOut[1].text = KindTag(lastCall.arg.type) \o lastCall.arg.message
       /\ lastCall.arg.colorsEnabled =>
             /\ \E type \in MessageType \ {"NORMAL"} :
                   IsPrefix(KindColor(type) \o KindIcon(type), serialOut[1].text)
             /\ IsSuffix(ColorReset, serialOut[1].text)

\* C31 amended: the same for the kinds Success, Error, Warning and Info,
\* the colored message being color, icon, a space, the text and the reset;
\* a Normal message is the text alone with colors enabled too.
FormatTagsOrColorsButNormal ==
    Printed =>
       /\ Contains(serialOut[1].text, lastCall.arg.message)
       /\ ~lastCall.arg.colorsEnabled =>
             serialOut[1].text = KindTag(lastCall.arg.type) \o lastCall.arg.message
       /\ lastCall.arg.colorsEnabled /\ lastCall.arg.type # "NORMAL" =>
             serialOut[1].text =
                KindColor(lastCall.arg.type) \o KindIcon(lastCall.arg.type)
                   \o <<SPACE>> \o lastCall.arg.message \o ColorReset
       /\ lastCall.arg.colorsEnabled /\ lastCall.arg.type = "NORMAL" =>
             serialOut[1].text = lastCall.arg.message

\* C31 witness: the warning "a " was printed in color
ColoredWarningPrinted ==
    /\ Printed
    /\ lastCall.arg = [type |-> "WARNING", message |-> <<97, SPACE>>,
                       colorsEnabled |-> TRUE]
    /\ serialOut[1].text =
          <<27, 91, 51, 51, 109, 226, 154, 160, 32, 97, 32, 27, 91, 48, 109>>

----------------------------------------------------------------------------
\* Claims about update() and escape sequences, checked under SpecEscape.

\* C32: an update() of a running engine whose handlers return reads every
\* byte the transport holds, each once, and returns with none left; what
\* it keeps of them is in the engine's line buffer and nowhere else.
UpdateDrainsTransport ==
    [][lastCall'.op = "update" /\ cli.isRunning /\ aborted' = "no" =>
          /\ serialIn' = <<>>
          /\ Len(cli'.inputBuffer) <= Len(cli.inputBuffer) + Len(lastCall'.arg)]_vars

\* C32 witness: a, a submit byte and a arrived together; the call
\* dispatched the line, left the second a in the buffer and nothing on the
\* transport
BurstDrained ==
    /\ lastCall.op = "update"
    /\ lastCall.arg = <<97, CR, 97>>
    /\ serialIn = <<>>
    /\ serialOut # <<>>
    /\ cli.inputBuffer = <<97>>

\* C33: a sequence cut short is dropped: its bytes are read, none of them
\* is inserted or edits the line, and nothing of it is left for the next
\* call.
PartialSequenceIsDropped ==
    [][\A key \in PartialSequences :
          Presses(key) => cli' = cli /\ serialIn' = <<>>]_vars

\* C34: a sequence that is none of the seven is ignored as a whole: its
\* bytes are read, none is inserted, and buffer, cursor, mode and history
\* are as before.
UnknownSequenceIsIgnored ==
    [][\A key \in UnknownSequences :
          Presses(key) => cli' = cli /\ serialIn' = <<>>]_vars

----------------------------------------------------------------------------
\* Claims about the history mode, checked under Spec.

\* the engine enters the history mode in this step
EntersBrowsing == ~cli.inHistoryMode /\ cli'.inHistoryMode

\* the history mode is entered only by an update() that reads a
\* history-up sequence and finds the history non-empty
EnteredOnlyByUp ==
    EntersBrowsing =>
       /\ lastCall'.op = "update"
       /\ Contains(lastCall'.arg, keyUp)
       /\ cli'.commandHistory # <<>>

\* a submit byte or a printable byte received while browsing leaves the
\* history mode
SubmitAndInsertExit ==
    \A key \in {<<CR>>, <<97>>} :
       Presses(key) /\ cli.inHistoryMode => ~cli'.inHistoryMode

\* C35 as stated: the history mode is entered only by a history-up with a
\* non-empty history, and every submit, insert, erase-left and
\* erase-at-cursor received while browsing leaves it.
BrowsingEnteredByUpLeftByEdits ==
    [][/\ EnteredOnlyByUp
       /\ SubmitAndInsertExit
       /\ \A key \in {<<BS>>, keyDelete} :
             Presses(key) /\ cli.inHistoryMode => ~cli'.inHistoryMode]_vars

\* C35 amended: the same, an erase leaving the history mode when it removes
\* a character; an erase-left at cursor 0 and an erase-at-cursor at the end
\* of the line change nothing, the mode included.
BrowsingEnteredByUpLeftByChanges ==
    [][/\ EnteredOnlyByUp
       /\ SubmitAndInsertExit
       /\ Presses(<<BS>>) /\ cli.inHistoryMode =>
             IF cli.cursorPos > 0 THEN ~cli'.inHistoryMode ELSE cli' = cli
       /\ Presses(keyDelete) /\ cli.inHistoryMode =>
             IF cli.cursorPos < Len(cli.inputBuffer)
             THEN ~cli'.inHistoryMode
             ELSE cli' = cli]_vars

\* C35 witness: a history-up has recalled the newest entry, then the key
\* left and the erase-at-cursor removed its last character and left the
\* history mode
ErasedOutOfBrowsing ==
    /\ lastCall.op = "update"
    /\ lastCall.arg = keyDelete
    /\ ~cli.inHistoryMode
    /\ cli.commandHistory = <<<<97, 97>>>>
    /\ cli.inputBuffer = <<97>>
    /\ cli.savedInput = <<>>

\* the browsing index and the snapshot a history-up works on: those of the
\* browsing engine, and those that entering the history mode sets
IndexAtUp ==
    IF cli.inHistoryMode THEN cli.historyIndex ELSE Len(cli.commandHistory)

SnapshotAtUp == IF cli.inHistoryMode THEN cli.savedInput ELSE cli.inputBuffer

\* a history-up over a non-empty history enters the history mode with the
\* buffer as snapshot and the index at the history length, if the engine is
\* not browsing; then it decrements an index above 0 and shows the entry
\* at the new index, the cursor at its end, and changes nothing at index 0
UpRefinesHistoryStore ==
    Presses(keyUp) /\ cli.commandHistory # <<>> =>
       /\ aborted' = "no"
       /\ cli'.inHistoryMode
       /\ cli'.savedInput = SnapshotAtUp
       /\ cli'.commandHistory = cli.commandHistory
       /\ IF IndexAtUp > 0
          THEN /\ cli'.historyIndex = IndexAtUp - 1
               /\ IndexAtUp <= Len(cli.commandHistory)
               /\ cli'.inputBuffer = cli.commandHistory[IndexAtUp]
               /\ cli'.cursorPos = Len(cli'.inputBuffer)
          ELSE /\ cli'.historyIndex = IndexAtUp
               /\ cli'.inputBuffer = cli.inputBuffer
               /\ cli'.cursorPos = cli.cursorPos

\* the index after the increment of a history-down
IndexAfterDown ==
    IF cli.historyIndex < Len(cli.commandHistory)
    THEN cli.historyIndex + 1
    ELSE cli.historyIndex

\* a history-down of a browsing engine increments an index below the
\* history length; with the new index at the length it restores the
\* snapshot and leaves the history mode, otherwise it shows the entry at
\* the new index, the cursor at its end
DownRefinesHistoryStore ==
    Presses(keyDown) /\ cli.inHistoryMode =>
       /\ aborted' = "no"
       /\ cli'.commandHistory = cli.commandHistory
       /\ cli'.cursorPos = Len(cli'.inputBuffer)
       /\ IF IndexAfterDown = Len(cli.commandHistory)
          THEN /\ ~cli'.inHistoryMode
               /\ cli'.inputBuffer = cli.savedInput
          ELSE /\ cli'.inHistoryMode
               /\ cli'.historyIndex = IndexAfterDown
               /\ cli'.savedInput = cli.savedInput
               /\ IndexAfterDown < Len(cli.commandHistory)
               /\ cli'.inputBuffer = cli.commandHistory[IndexAfterDown + 1]

\* C36: the history-up and history-down keys act on snapshot, index,
\* buffer and cursor as enterBrowsing, up and down of the HistoryStore do.
NavigationRefinesHistoryStore ==
    [][UpRefinesHistoryStore /\ DownRefinesHistoryStore]_vars

\* the same for the steps that start with the browsing index within the
\* history
NavigationRefinesWithinHistory ==
    [][(cli.inHistoryMode => cli.historyIndex <= Len(cli.commandHistory))
          => UpRefinesHistoryStore /\ DownRefinesHistoryStore]_vars

----------------------------------------------------------------------------
\* Claims about editing, checked under SpecEscape.

\* the line and the cursor before a step
LineOf(c) == [b |-> c.inputBuffer, p |-> c.cursorPos]

\* the reference line editor: insert c at the cursor
RefInsert(e, c) ==
    [b |-> SubSeq(e.b, 1, e.p) \o <<c>> \o SubSeq(e.b, e.p + 1, Len(e.b)),
     p |-> e.p + 1]

\* the reference line editor: erase left of the cursor
RefEraseLeft(e) ==
    IF e.p = 0 THEN e
    ELSE [b |-> SubSeq(e.b, 1, e.p - 1) \o SubSeq(e.b, e.p + 1, Len(e.b)),
          p |-> e.p - 1]

\* the reference line editor: erase at the cursor
RefEraseAt(e) ==
    IF e.p = Len(e.b) THEN e
    ELSE [b |-> SubSeq(e.b, 1, e.p) \o SubSeq(e.b, e.p + 2, Len(e.b)),
          p |-> e.p]

\* C37: a printable byte, an erase-left byte and the erase-at-cursor
\* sequence change line and cursor as the reference line editor does, at
\* every cursor position; a byte outside 32..126 that is no control byte
\* changes nothing.
EditingMatchesReference ==
    [][/\ Presses(<<97>>) => LineOf(cli') = RefInsert(LineOf(cli), 97)
       /\ \A key \in {<<BS>>, <<DEL>>} :
             Presses(key) => LineOf(cli') = RefEraseLeft(LineOf(cli))
       /\ Presses(keyDelete) => LineOf(cli') = RefEraseAt(LineOf(cli))
       /\ \A key \in {<<9>>, <<200>>} : Presses(key) => cli' = cli]_vars

\* C37 witness: an a was inserted in front of the one character of the
\* line
InsertedInFront ==
    /\ lastCall.op = "update"
    /\ lastCall.arg = <<97>>
    /\ cli.inputBuffer = <<97, LBRACKET>>
    /\ cli.cursorPos = 1

----------------------------------------------------------------------------
\* Claims about the history mode and the API calls, checked under Spec.

\* C38: a browsing engine has its index at an entry of the history,
\* 0 <= historyIndex < length, whatever calls of setHistorySize, setConfig
\* and clearHistory come between the update() calls, and no key has read
\* the history out of range.
BrowsingIndexAtAnEntry ==
    /\ aborted # "crash"
    /\ cli.inHistoryMode =>
          cli.historyIndex >= 0 /\ cli.historyIndex < Len(cli.commandHistory)

----------------------------------------------------------------------------
\* Claims about the order of a submission, checked under SpecSession.

\* what the handler of history reports of history h
HistoryReport(h) ==
    IF h = <<>> THEN [ev |-> "NoHistory"]
    ELSE [ev |-> "HistoryList", lines |-> h]

\* C39: a submitted line is dispatched, then stored, then the editor is
\* reset: the handler of history reports the history as it was before the
\* line, the line is stored after a handler that cleared the history, and
\* the buffer is empty, the cursor 0 and the history mode left at the end.
DispatchThenStoreThenReset ==
    [][SubmitsOneLine /\ aborted' = "no" =>
          /\ DispatchedLine = str_history =>
                \E i \in DOMAIN serialOut' :
                   serialOut'[i] = HistoryReport(cli.commandHistory)
          /\ cli'.commandHistory =
                IF DispatchedLine = str_history \o <<SPACE>> \o str_clear
                THEN Newest(<<DispatchedLine>>, cli.config.historySize)
                ELSE AfterSubmission(cli, DispatchedLine)
          /\ cli'.inputBuffer = <<>>
          /\ cli'.cursorPos = 0
          /\ ~cli'.inHistoryMode]_vars

\* C39 witness: history was submitted after a; its handler listed a alone,
\* and history is the newest entry now
HistoryListedWithoutItself ==
    /\ lastCall.op = "update"
    /\ lastCall.arg = str_history \o <<CR>>
    /\ \E i \in DOMAIN serialOut :
          serialOut[i] = [ev |-> "HistoryList", lines |-> <<<<97>>>>]
    /\ cli.commandHistory # <<>>
    /\ cli.commandHistory[Len(cli.commandHistory)] = str_history

----------------------------------------------------------------------------
\* Claims about a submit on an empty buffer, checked under SpecSession.

\* engine c out of the history mode, all else as it is
OutOfBrowsing(c) ==
    [c EXCEPT !.inHistoryMode = FALSE,
              !.historyIndex = IF c.inHistoryMode THEN -1 ELSE @]

\* C40: a submit byte read while the buffer is empty dispatches nothing
\* and reports nothing, and leaves the engine as it is but for the history
\* mode, which it leaves; a line ended by CR LF does what the line ended by
\* CR does.
EmptySubmitOnlyLeavesBrowsing ==
    [][/\ \A key \in {<<CR>>, <<LF>>} :
             Presses(key) /\ cli.inputBuffer = <<>> =>
                /\ aborted' = "no"
                /\ serialOut' = <<>>
                /\ cli' = OutOfBrowsing(cli)
       /\ \A line \in SessionLines :
             Presses(line \o <<CR, LF>>) /\ cli.inputBuffer = <<>>
                /\ aborted' = "no" =>
                   LET r == update(Machine(cli, line \o <<CR>>, noWild))
                   IN  cli' = r.cli /\ serialOut' = r.out]_vars

\* C40 witness: a CR LF arrived on an empty buffer; a was dispatched and
\* stored once, and nothing came of the LF
LineEndedByCRLF ==
    /\ lastCall.op = "update"
    /\ lastCall.arg = <<97, CR, LF>>
    /\ Len(serialOut) = 1
    /\ cli.commandHistory = <<<<97>>>>
    /\ cli.inputBuffer = <<>>

====
